---- MODULE Spec2Model ----
(***************************************************************************)
(* Model of the Ethereum data API (MinhWalker/project-exam, backend):      *)
(*   - usecase.GetAddressInfo: fan-out of three upstream calls over        *)
(*     channels and the fan-in select loop;                                *)
(*   - middleware.RateLimiter: sliding window limiter, whitelist, sweep;   *)
(*   - the gin middleware chain of router.setupMiddleware/registerRoutes   *)
(*     with the Timeout race, Recovery and the address handler.            *)
(***************************************************************************)
EXTENDS Integers, Sequences, FiniteSets, TLC

\* ------------------------------------------------------------------------
\* Bounds of the model
\* ------------------------------------------------------------------------
\* number of distinct non-zero values an upstream call may return
MaxUpstreamVal == 1

\* ------------------------------------------------------------------------
\* Aggregator: usecase.GetAddressInfo
\* ------------------------------------------------------------------------
VARIABLES
    ucPc,          \* position of GetAddressInfo: "idle", "select", "returned"
    ucAddress,     \* the address argument
    goPc,          \* position of each spawned goroutine
    upRet,         \* what the upstream call of each goroutine returned
    errCh,         \* errCh, buffered channel of capacity 3
    i,             \* loop counter of the select loop
    gasPrice,      \* local gasPrice (*big.Int, NilInt = nil)
    blockNumber,   \* local blockNumber (uint64, zero value 0)
    balance,       \* local balance (*big.Int, NilInt = nil)
    received,      \* history: the value channels the loop has received from
    firstFault,    \* history: which came first, "failure" (an error sent on
                   \* errCh) or "cancel" (ctx done); "none" before either
    calls,         \* history: per upstream operation, the calls that returned
    retryAttempts, \* cfg.Ethereum.RetryAttempts
    ucRet,         \* the pair returned by GetAddressInfo
    ctxErr         \* ctx.Err(): NoErr while the context is live

aggVars == <<ucPc, ucAddress, goPc, upRet, errCh, i, gasPrice, blockNumber,
             balance, received, firstFault,
             calls, retryAttempts, ucRet, ctxErr>>

\* the three goroutines, named after the call each one makes
Ops == {"gas price", "block number", "balance"}

\* nil *big.Int
NilInt == -1

NoErr == <<>>

\* ctx.Err() of a finished context
CtxErrs == {<<"context canceled">>, <<"context deadline exceeded">>}

\* error texts of a failing upstream call: an RPC failure, or the context
\* error of the per-call timeout context
UpstreamErrs == {<<"rpc failure">>} \cup CtxErrs

\* values an upstream call may deliver, distinct per call
UpstreamVals(op) ==
    CASE op = "gas price"    -> {0} \cup {700000000 * k : k \in 1..MaxUpstreamVal}
      [] op = "block number" -> {0} \cup {17 * k : k \in 1..MaxUpstreamVal}
      [] op = "balance"      -> {0} \cup {250000000 * k : k \in 1..MaxUpstreamVal}

\* "0x" followed by forty zeros
ZeroAddress == <<"0", "x">> \o [k \in 1..40 |-> "0"]

\* addresses the use case is called with
Addresses == {ZeroAddress}

\* the wrapping that loses the name of the call
WrapUpstream_Unnamed(op, err) == <<"failed to get " , "data">> \o err

\* fmt.Errorf("failed to get <op>: %w", err)
WrapUpstream(op, err) == <<"failed to get " , op>> \o err

\* fmt.Errorf("context cancelled: %w", ctx.Err())
WrapCtx(err) == <<"context cancelled">> \o err

Pow10_9 == 1000000000

\* a non-negative *big.Int as its decimal digits in groups of nine, most
\* significant first: <<g2, g1, g0>> stands for g2 * 10^18 + g1 * 10^9 + g0.
\* The groups of an integer small enough for the upstream calls of the model:
GroupsOf(n) == <<0, n \div Pow10_9, n % Pow10_9>>

\* the quotient of an integer division by 10^9: the fraction is dropped
QuoGwei_IntegerDivision(w) == [whole |-> <<w[1], w[2]>>, frac |-> <<0>>]

\* new(big.Float).Quo(SetInt(wei), SetInt(10^9)): the decimal quotient, its
\* whole part as groups and its nine fractional digits as one group
QuoGwei(w) == [whole |-> <<w[1], w[2]>>, frac |-> <<w[3]>>]

\* new(big.Float).Quo(SetInt(wei), SetInt(10^18)): the decimal quotient, its
\* whole part and its eighteen fractional digits in two groups
QuoEther(w) == [whole |-> <<w[1]>>, frac |-> <<w[2], w[3]>>]

\* gweiFloat, _ := gwei.Float64() of the quotient by 10^9
WeiToGwei(wei) == QuoGwei(GroupsOf(wei))

\* etherFloat, _ := ether.Float64() of the quotient by 10^18
WeiToEther(wei) == QuoEther(GroupsOf(wei))

NoInfo == [nil |-> TRUE]

\* &entity.AddressInfo{...}
AddressInfo(address, gp, bn, bal) ==
    [nil          |-> FALSE,
     Address      |-> address,
     GasPrice     |-> [Wei |-> gp, Gwei |-> WeiToGwei(gp)],
     CurrentBlock |-> bn,
     Balance      |-> [Wei |-> bal, Ether |-> WeiToEther(bal)]]

NoRet == [info |-> NoInfo, err |-> NoErr]

\* getIntEnv("ETHEREUM_RETRY_ATTEMPTS", 3)
DefaultRetryAttempts == 3

\* retry counts a deployment may configure
RetryAttemptsValues == {0, DefaultRetryAttempts}

\* the record of which fault came first, after one more event
Earlier(first, event) == IF first = "none" THEN event ELSE first

InitAggIdle ==
    /\ ucPc = "idle"
    /\ ucAddress = <<>>
    /\ goPc = [g \in Ops |-> "unborn"]
    /\ upRet = [g \in Ops |-> [val |-> 0, err |-> NoErr]]
    /\ errCh = <<>>
    /\ i = 0
    /\ gasPrice = NilInt
    /\ blockNumber = 0
    /\ balance = NilInt
    /\ received = {}
    /\ firstFault = "none"
    /\ calls = [g \in Ops |-> 0]
    /\ ucRet = NoRet
    /\ ctxErr = NoErr

\* entry of GetAddressInfo: make the channels, start the three goroutines,
\* declare the locals
CallGetAddressInfo(address) ==
    /\ ucPc = "idle"
    /\ ucPc' = "select"
    /\ ucAddress' = address
    /\ goPc' = [g \in Ops |-> "call"]
    /\ errCh' = <<>>
    /\ i' = 0
    /\ gasPrice' = NilInt
    /\ blockNumber' = 0
    /\ balance' = NilInt
    /\ received' = {}
    /\ firstFault' = IF ctxErr # NoErr THEN "cancel" ELSE "none"
    /\ calls' = [g \in Ops |-> 0]
    /\ UNCHANGED retryAttempts
    /\ UNCHANGED <<upRet, ucRet, ctxErr>>

\* a goroutine's branch on the error of its upstream call
GoAfterCall_IgnoreErr(err) == "sendVal"

\* a goroutine that calls again after a failure
GoAfterCall_Retry(err) == IF err # NoErr THEN "call" ELSE "sendVal"

\* if err != nil { errCh <- ...; return }; <value channel> <- value
GoAfterCall(err) == IF err # NoErr THEN "sendErr" ELSE "sendVal"

\* uc.repo.GetGasPrice / GetCurrentBlock / GetAddressBalance returns a value
UpstreamOk(g) ==
    /\ goPc[g] = "call"
    /\ \E v \in UpstreamVals(g) :
           upRet' = [upRet EXCEPT ![g] = [val |-> v, err |-> NoErr]]
    /\ goPc' = [goPc EXCEPT ![g] = GoAfterCall(NoErr)]
    /\ calls' = [calls EXCEPT ![g] = @ + 1]
    /\ UNCHANGED <<ucPc, ucAddress, errCh, i, gasPrice, blockNumber, balance,
                   received, firstFault, retryAttempts, ucRet, ctxErr>>

\* the upstream call returns an error (RPC failure, per-call timeout, or the
\* governing context being done)
UpstreamFail(g) ==
    /\ goPc[g] = "call"
    /\ \E e \in UpstreamErrs :
           /\ e \in CtxErrs => (e = <<"context deadline exceeded">> \/ ctxErr = e)
           /\ upRet' = [upRet EXCEPT ![g] = [val |-> 0, err |-> e]]
    /\ goPc' = [goPc EXCEPT ![g] = GoAfterCall(upRet'[g].err)]
    /\ calls' = [calls EXCEPT ![g] = @ + 1]
    /\ UNCHANGED <<ucPc, ucAddress, errCh, i, gasPrice, blockNumber, balance,
                   received, firstFault, retryAttempts, ucRet, ctxErr>>

\* the failing goroutine returns without handing its error over
SendErr_Dropped(g) ==
    /\ goPc[g] = "sendErr"
    /\ goPc' = [goPc EXCEPT ![g] = "done"]
    /\ UNCHANGED <<ucPc, ucAddress, upRet, errCh, i, gasPrice, blockNumber,
                   balance, received, ucRet, ctxErr, firstFault, calls,
                   retryAttempts>>

\* errCh <- fmt.Errorf(...); return     (errCh has room for all three)
SendErr(g) ==
    /\ goPc[g] = "sendErr"
    /\ Len(errCh) < 3
    /\ errCh' = Append(errCh, WrapUpstream(g, upRet[g].err))
    /\ goPc' = [goPc EXCEPT ![g] = "done"]
    /\ UNCHANGED <<ucPc, ucAddress, upRet, i, gasPrice, blockNumber, balance,
                   received, ucRet, ctxErr>>
    /\ firstFault' = Earlier(firstFault, "failure")
    /\ UNCHANGED <<calls, retryAttempts>>

\* the loop bound with one iteration too many
LoopCond_FourIterations == i < 4

\* the loop bound with one iteration too few
LoopCond_TwoIterations == i < 2

\* for i := 0; i < 3; i++
LoopCond == i < 3

\* the loop condition holds and the select statement is executing
InSelect == ucPc = "select" /\ LoopCond

\* case <-ctx.Done(): return nil, fmt.Errorf("context cancelled: %w", ctx.Err())
SelectCtxDone ==
    /\ InSelect
    /\ ctxErr # NoErr
    /\ ucRet' = [info |-> NoInfo, err |-> WrapCtx(ctxErr)]
    /\ ucPc' = "returned"
    /\ UNCHANGED <<ucAddress, goPc, upRet, errCh, i, gasPrice, blockNumber,
                   balance, received, firstFault, calls, retryAttempts,
                   ctxErr>>

\* case err := <-errCh: return nil, err
SelectErr ==
    /\ InSelect
    /\ errCh # <<>>
    /\ ucRet' = [info |-> NoInfo, err |-> Head(errCh)]
    /\ errCh' = Tail(errCh)
    /\ ucPc' = "returned"
    /\ UNCHANGED <<ucAddress, goPc, upRet, i, gasPrice, blockNumber, balance,
                   received, firstFault, calls, retryAttempts, ctxErr>>

\* case gasPrice = <-gasPriceCh / blockNumber = <-blockNumberCh /
\* balance = <-balanceCh: continue.  The channels are unbuffered: the send of
\* goroutine g and this receive are one step.
SelectValue(g) ==
    /\ InSelect
    /\ goPc[g] = "sendVal"
    /\ gasPrice' = IF g = "gas price" THEN upRet[g].val ELSE gasPrice
    /\ blockNumber' = IF g = "block number" THEN upRet[g].val ELSE blockNumber
    /\ balance' = IF g = "balance" THEN upRet[g].val ELSE balance
    /\ received' = received \cup {g}
    /\ goPc' = [goPc EXCEPT ![g] = "done"]
    /\ i' = i + 1
    /\ UNCHANGED <<ucPc, ucAddress, upRet, errCh, ucRet, ctxErr, firstFault,
                   calls, retryAttempts>>

\* after the loop: the conversions and return &entity.AddressInfo{...}, nil
ReturnInfo ==
    /\ ucPc = "select"
    /\ ~LoopCond
    /\ ucRet' = [info |-> AddressInfo(ucAddress, gasPrice, blockNumber, balance),
                 err  |-> NoErr]
    /\ ucPc' = "returned"
    /\ UNCHANGED <<ucAddress, goPc, upRet, errCh, i, gasPrice, blockNumber,
                   balance, received, firstFault, calls, retryAttempts,
                   ctxErr>>

\* the caller's context is cancelled or its deadline passes
CtxDone ==
    /\ ctxErr = NoErr
    /\ ucPc # "idle"
    /\ \E e \in CtxErrs : ctxErr' = e
    /\ UNCHANGED <<ucPc, ucAddress, goPc, upRet, errCh, i, gasPrice,
                   blockNumber, balance, received, ucRet, calls,
                   retryAttempts>>
    /\ firstFault' = Earlier(firstFault, "cancel")

\* ------------------------------------------------------------------------
\* RateLimiter: middleware.RateLimiter
\* ------------------------------------------------------------------------
VARIABLES
    ips,           \* rl.ips: map from client IP to its stored timestamps
    whitelistIPs,  \* rl.whitelistIPs: the IPs mapped to true
    mu,            \* rl.mu: Free, or the goroutine holding it (a request
                   \* goroutine, Admin or Sweeper)
    clock,         \* time.Now()
    rlPc,          \* position of each request goroutine inside Limit():
                   \* "idle", "locked", "pruned", "nextExempt" (c.Next() of
                   \* the whitelisted branch), "next", "rejected"
    rlIP,          \* ip := c.ClientIP() of each request goroutine
    rlNow,         \* local now
    rlValid,       \* local validRequests
    sleepStart,    \* instant at which the cleanup goroutine went to sleep
    admitted,      \* history: instants of the requests Limit() counted, per IP
    sweepsSince,   \* history: sweeps since the last counted request (max 2)
    requests,      \* history: number of requests that entered Limit()
    lastPrune      \* history: per IP, the instant read by the last filter
                   \* loop (of Limit() or of cleanup()) over its stored list

rlVars == <<ips, whitelistIPs, mu, clock, rlPc, rlIP, rlNow, rlValid,
            sleepStart, lastPrune, admitted, sweepsSince, requests>>

\* client identities
IPs == {"10.0.0.1", "10.0.0.2"}

\* concurrent request goroutines
Workers == {"r1", "r2"}

Free == "free"

\* rl.limit
Limit == 2

\* rl.window, in clock ticks
Window == 2

\* last instant of the clock
MaxTime == 4

\* number of requests served in one behaviour
MaxRequests == 3

\* t.After(u), off by one instant
After_Inclusive(t, u) == t >= u

\* t.After(u)
After(t, u) == t > u

\* now.Add(-rl.window)
WindowStart(now) == now - Window

\* a filter loop that retains every timestamp
ValidTimes_KeepsAll(times, windowStart) == times

\* the loop "for _, t := range times { if t.After(windowStart) { append } }"
ValidTimes(times, windowStart) ==
    SelectSeq(times, LAMBDA t : After(t, windowStart))

\* validRequests := rl.ips[ip][:0] shares the backing array of rl.ips[ip]:
\* after the filter loop the stored slice keeps its length, its first
\* len(validRequests) elements overwritten by the retained ones
FilteredInPlace(times, valid) ==
    valid \o SubSeq(times, Len(valid) + 1, Len(times))

\* if len(validRequests) >= rl.limit
LimitReached(valid) == Len(valid) >= Limit

\* the whitelist lookup skipped
IsWhitelisted_Never(ip) == FALSE

\* if rl.whitelistIPs[ip]
IsWhitelisted(ip) == ip \in whitelistIPs

\* rl.mu.Lock() that never waits
CanLock_NoMutex == TRUE

\* rl.mu.Lock() returns only when the mutex is free
CanLock == mu = Free

\* an assignment that replaces the map by the one entry
MapPut_DropsOthers(m, k, v) == [x \in {k} |-> v]

\* m[k] = v on a map
MapPut(m, k, v) == [x \in (DOMAIN m) \cup {k} |-> IF x = k THEN v ELSE m[x]]

\* delete(m, k)
MapDelete(m, k) == [x \in (DOMAIN m) \ {k} |-> m[x]]

InitRL ==
    /\ ips = <<>>
    /\ whitelistIPs = {}
    /\ mu = Free
    /\ clock = 0
    /\ rlPc = [w \in Workers |-> "idle"]
    /\ rlIP = [w \in Workers |-> ""]
    /\ rlNow = [w \in Workers |-> 0]
    /\ rlValid = [w \in Workers |-> <<>>]
    /\ sleepStart = 0
    /\ admitted = [ip \in IPs |-> <<>>]
    /\ sweepsSince = [ip \in IPs |-> 2]
    /\ requests = 0
    /\ lastPrune = [ip \in IPs |-> 0]

\* the goroutine that calls AddToWhitelist and RemoveFromWhitelist
Admin == "admin"

\* the goroutine started by NewRateLimiter
Sweeper == "cleanup"

\* rl.mu.Lock() of AddToWhitelist or of RemoveFromWhitelist
WhitelistLock ==
    /\ CanLock
    /\ mu' = Admin
    /\ UNCHANGED <<ips, whitelistIPs, clock, rlPc, rlIP, rlNow, rlValid,
                   sleepStart, lastPrune, admitted, sweepsSince, requests>>

\* AddToWhitelist that writes the whitelist without taking the mutex
AddToWhitelist_NoLock(ip) ==
    /\ whitelistIPs' = whitelistIPs \cup {ip}
    /\ UNCHANGED <<ips, mu, clock, rlPc, rlIP, rlNow, rlValid, sleepStart, lastPrune,
                   admitted, sweepsSince, requests>>

\* AddToWhitelist under the mutex: rl.whitelistIPs[ip] = true, deferred
\* Unlock
AddToWhitelist(ip) ==
    /\ mu = Admin
    /\ whitelistIPs' = whitelistIPs \cup {ip}
    /\ mu' = Free
    /\ UNCHANGED <<ips, clock, rlPc, rlIP, rlNow, rlValid, sleepStart, lastPrune,
                   admitted, sweepsSince, requests>>

\* RemoveFromWhitelist under the mutex: delete(rl.whitelistIPs, ip),
\* deferred Unlock
RemoveFromWhitelist(ip) ==
    /\ mu = Admin
    /\ whitelistIPs' = whitelistIPs \ {ip}
    /\ mu' = Free
    /\ UNCHANGED <<ips, clock, rlPc, rlIP, rlNow, rlValid, sleepStart, lastPrune,
                   admitted, sweepsSince, requests>>

\* Limit(): ip := c.ClientIP(); rl.mu.Lock()
LimitLock(w, ip) ==
    /\ rlPc[w] = "idle"
    /\ requests < MaxRequests
    /\ CanLock
    /\ mu' = w
    /\ rlIP' = [rlIP EXCEPT ![w] = ip]
    /\ rlPc' = [rlPc EXCEPT ![w] = "locked"]
    /\ requests' = requests + 1
    /\ UNCHANGED <<ips, whitelistIPs, clock, rlNow, rlValid, sleepStart, lastPrune,
                   admitted, sweepsSince>>

\* a whitelisted branch that records the request before it passes it on
LimitWhitelisted_Counts(w) ==
    /\ rlPc[w] = "locked"
    /\ IsWhitelisted(rlIP[w])
    /\ ips' = [x \in (DOMAIN ips) \cup {rlIP[w]} |->
                 IF x # rlIP[w] THEN ips[x]
                 ELSE IF x \in DOMAIN ips THEN Append(ips[x], clock)
                 ELSE <<clock>>]
    /\ mu' = Free
    /\ rlPc' = [rlPc EXCEPT ![w] = "nextExempt"]
    /\ UNCHANGED <<whitelistIPs, clock, rlIP, rlNow, rlValid, sleepStart,
                   lastPrune, admitted, sweepsSince, requests>>

\* a whitelisted branch that calls c.Next() without unlocking
LimitWhitelisted_HoldsLock(w) ==
    /\ rlPc[w] = "locked"
    /\ IsWhitelisted(rlIP[w])
    /\ rlPc' = [rlPc EXCEPT ![w] = "nextExempt"]
    /\ UNCHANGED <<ips, whitelistIPs, mu, clock, rlIP, rlNow, rlValid,
                   sleepStart, lastPrune, admitted, sweepsSince, requests>>

\* Limit(), whitelisted branch: rl.mu.Unlock(); c.Next()
LimitWhitelisted(w) ==
    /\ rlPc[w] = "locked"
    /\ IsWhitelisted(rlIP[w])
    /\ mu' = Free
    /\ rlPc' = [rlPc EXCEPT ![w] = "nextExempt"]
    /\ UNCHANGED <<ips, whitelistIPs, clock, rlIP, rlNow, rlValid, sleepStart, lastPrune,
                   admitted, sweepsSince, requests>>

\* the stored slice of ip once the entry is initialised
EntryOf(ip) == IF ip \in DOMAIN ips THEN ips[ip] ELSE <<>>

\* Limit(), counted branch up to the limit test: initialise the entry, read
\* the clock, filter the stored timestamps in place
LimitPrune(w) ==
    /\ rlPc[w] = "locked"
    /\ ~IsWhitelisted(rlIP[w])
    /\ LET ip    == rlIP[w]
           valid == ValidTimes(EntryOf(ip), WindowStart(clock))
       IN  /\ rlNow' = [rlNow EXCEPT ![w] = clock]
           /\ rlValid' = [rlValid EXCEPT ![w] = valid]
           /\ ips' = MapPut(ips, ip, FilteredInPlace(EntryOf(ip), valid))
    /\ rlPc' = [rlPc EXCEPT ![w] = "pruned"]
    /\ lastPrune' = [lastPrune EXCEPT ![rlIP[w]] = clock]
    /\ UNCHANGED <<whitelistIPs, mu, clock, rlIP, sleepStart, admitted,
                   sweepsSince, requests>>

\* a rejection that records the rejected attempt before it unlocks
LimitReject_Counts(w) ==
    /\ rlPc[w] = "pruned"
    /\ LimitReached(rlValid[w])
    /\ ips' = MapPut(ips, rlIP[w], Append(rlValid[w], rlNow[w]))
    /\ mu' = Free
    /\ rlPc' = [rlPc EXCEPT ![w] = "rejected"]
    /\ UNCHANGED <<whitelistIPs, clock, rlIP, rlNow, rlValid, sleepStart, lastPrune,
                   admitted, sweepsSince, requests>>

\* Limit(), limit reached: Unlock, response.TooManyRequests(c), c.Abort()
LimitReject(w) ==
    /\ rlPc[w] = "pruned"
    /\ LimitReached(rlValid[w])
    /\ mu' = Free
    /\ rlPc' = [rlPc EXCEPT ![w] = "rejected"]
    /\ UNCHANGED <<ips, whitelistIPs, clock, rlIP, rlNow, rlValid, sleepStart, lastPrune,
                   admitted, sweepsSince, requests>>

\* Limit(), below the limit: rl.ips[ip] = append(validRequests, now), Unlock,
\* c.Next()
LimitAdmit(w) ==
    /\ rlPc[w] = "pruned"
    /\ ~LimitReached(rlValid[w])
    /\ ips' = MapPut(ips, rlIP[w], Append(rlValid[w], rlNow[w]))
    /\ mu' = Free
    /\ rlPc' = [rlPc EXCEPT ![w] = "next"]
    /\ admitted' = [admitted EXCEPT ![rlIP[w]] = Append(@, rlNow[w])]
    /\ sweepsSince' = [sweepsSince EXCEPT ![rlIP[w]] = 0]
    /\ UNCHANGED <<whitelistIPs, clock, rlIP, rlNow, rlValid, sleepStart, lastPrune,
                   requests>>

\* the middleware returns (after c.Next() or after the 429); its locals die
LimitReturn(w) ==
    /\ rlPc[w] \in {"nextExempt", "next", "rejected"}
    /\ rlPc' = [rlPc EXCEPT ![w] = "idle"]
    /\ rlIP' = [rlIP EXCEPT ![w] = ""]
    /\ rlNow' = [rlNow EXCEPT ![w] = 0]
    /\ rlValid' = [rlValid EXCEPT ![w] = <<>>]
    /\ UNCHANGED <<ips, whitelistIPs, mu, clock, sleepStart, lastPrune, admitted,
                   sweepsSince, requests>>

\* the cleanup goroutine woke up without sleeping
SweepDue_NoSleep == TRUE

\* time.Sleep(window) of the cleanup goroutine has elapsed
SweepDue == clock >= sleepStart + Window

\* a sweep that empties the map
CleanedUp_DropsAll(m, windowStart) == <<>>

\* the map cleanup() leaves: per IP the timestamps after windowStart, the IP
\* deleted when none is left
CleanedUp(m, windowStart) ==
    LET keep == {ip \in DOMAIN m : Len(ValidTimes(m[ip], windowStart)) # 0}
    IN  [ip \in keep |-> ValidTimes(m[ip], windowStart)]

\* one round of the goroutine started by NewRateLimiter: Sleep(window), then
\* rl.mu.Lock() of cleanup()
CleanupLock ==
    /\ SweepDue
    /\ CanLock
    /\ mu' = Sweeper
    /\ UNCHANGED <<ips, whitelistIPs, clock, rlPc, rlIP, rlNow, rlValid,
                   sleepStart, lastPrune, admitted, sweepsSince, requests>>

\* cleanup() under the mutex: the sweep over rl.ips, deferred Unlock; the
\* goroutine goes back to sleep
Cleanup ==
    /\ mu = Sweeper
    /\ ips' = CleanedUp(ips, WindowStart(clock))
    /\ mu' = Free
    /\ sleepStart' = clock
    /\ sweepsSince' = [ip \in IPs |-> IF sweepsSince[ip] < 2
                                      THEN sweepsSince[ip] + 1 ELSE 2]
    /\ lastPrune' = [ip \in IPs |-> IF ip \in DOMAIN ips THEN clock
                                    ELSE lastPrune[ip]]
    /\ UNCHANGED <<whitelistIPs, clock, rlPc, rlIP, rlNow, rlValid,
                   admitted, requests>>

\* the clock advances
Tick ==
    /\ clock < MaxTime
    /\ clock' = clock + 1
    /\ UNCHANGED <<ips, whitelistIPs, mu, rlPc, rlIP, rlNow, rlValid,
                   sleepStart, lastPrune, admitted, sweepsSince, requests>>

\* ------------------------------------------------------------------------
\* Validator and response formatting
\* ------------------------------------------------------------------------
\* len(address) != 42
AddrLen == 42

HexChars == {"0", "1", "2", "3", "4", "5", "6", "7", "8", "9",
             "a", "b", "c", "d", "e", "f", "A", "B", "C", "D", "E", "F"}

\* strings.HasPrefix(s, "0x")
HasPrefix0x(s) == Len(s) >= 2 /\ s[1] = "0" /\ s[2] = "x"

\* regexp.MatchString("^0x[0-9a-fA-F]{40}$", address)
MatchesHexPattern(s) ==
    /\ Len(s) = 2 + 40
    /\ HasPrefix0x(s)
    /\ \A k \in 3..Len(s) : s[k] \in HexChars

\* EthereumValidator.IsValidAddress
IsValidAddress(address) ==
    IF Len(address) # AddrLen THEN FALSE
    ELSE IF ~HasPrefix0x(address) THEN FALSE
    ELSE MatchesHexPattern(address)

\* strings.ToLower on one character
LowerChar(ch) ==
    CASE ch = "A" -> "a" [] ch = "B" -> "b" [] ch = "C" -> "c"
      [] ch = "D" -> "d" [] ch = "E" -> "e" [] ch = "F" -> "f"
      [] ch = "X" -> "x" [] OTHER -> ch

RECURSIVE TrimLeft(_)
TrimLeft(s) == IF s # <<>> /\ Head(s) = " " THEN TrimLeft(Tail(s)) ELSE s

RECURSIVE TrimRight(_)
TrimRight(s) ==
    IF s # <<>> /\ s[Len(s)] = " " THEN TrimRight(SubSeq(s, 1, Len(s) - 1))
    ELSE s

\* EthereumValidator.FormatAddress: TrimSpace, ToLower, "0x" prefix if missing
FormatAddress(address) ==
    LET lower == [k \in 1..Len(TrimRight(TrimLeft(address))) |->
                      LowerChar(TrimRight(TrimLeft(address))[k])]
    IN  IF HasPrefix0x(lower) THEN lower ELSE <<"0", "x">> \o lower

\* forty hex characters, some of them upper case
MixedCaseAddress ==
    <<"0", "x">> \o [k \in 1..40 |-> IF k % 2 = 1 THEN "A" ELSE "b"]

\* one hex character short
ShortAddress == <<"0", "x">> \o [k \in 1..39 |-> "0"]

\* the :address parameters requests carry
ReqAddresses == {ZeroAddress, MixedCaseAddress, ShortAddress}

Digit(d) == <<"0", "1", "2", "3", "4", "5", "6", "7", "8", "9">>[d + 1]

\* (*big.Int).String(): the decimal digits
RECURSIVE DecimalString(_)
DecimalString(n) ==
    IF n < 10 THEN <<Digit(n)>>
    ELSE Append(DecimalString(n \div 10), Digit(n % 10))

\* a formatter that reports the balance as the gas price and the reverse
FormatAddressInfo_SwapsWei(info) ==
    [Address      |-> info.Address,
     GasPrice     |-> [Wei  |-> DecimalString(info.Balance.Wei),
                       Gwei |-> info.GasPrice.Gwei],
     CurrentBlock |-> info.CurrentBlock,
     Balance      |-> [Wei   |-> DecimalString(info.GasPrice.Wei),
                       Ether |-> info.Balance.Ether]]

\* response.FormatAddressInfo
FormatAddressInfo(info) ==
    [Address      |-> info.Address,
     GasPrice     |-> [Wei  |-> DecimalString(info.GasPrice.Wei),
                       Gwei |-> info.GasPrice.Gwei],
     CurrentBlock |-> info.CurrentBlock,
     Balance      |-> [Wei   |-> DecimalString(info.Balance.Wei),
                       Ether |-> info.Balance.Ether]]

NoData == [none |-> TRUE]

\* response.NewErrorResponse: c.JSON(statusCode, Response{Status: "error",
\* Message: message, Error: err.Error() or ""})
NewErrorResponse(by, statusCode, message, err) ==
    [by |-> by, status |-> statusCode, envelope |-> "error",
     message |-> message, error |-> err, data |-> NoData]

\* response.NewSuccessResponse
NewSuccessResponse(by, statusCode, data) ==
    [by |-> by, status |-> statusCode, envelope |-> "success",
     message |-> "", error |-> NoErr, data |-> data]

\* c.AbortWithStatusJSON(code, gin.H{"status": "error", "message": message})
StatusJSON(by, statusCode, message) ==
    [by |-> by, status |-> statusCode, envelope |-> "error",
     message |-> message, error |-> NoErr, data |-> NoData]

\* c.AbortWithStatus(code): a status line and no body
StatusOnly(by, statusCode) ==
    [by |-> by, status |-> statusCode, envelope |-> "none",
     message |-> "", error |-> NoErr, data |-> NoData]

\* response.InternalServerError
InternalServerError(by, err) ==
    NewErrorResponse(by, 500, "Internal server error", err)

\* response.BadRequest
BadRequest(by, message, err) == NewErrorResponse(by, 400, message, err)

\* response.TooManyRequests
TooManyRequests(by) ==
    NewErrorResponse(by, 429, "Rate limit exceeded. Try again later.", NoErr)

\* response.Success
Success(by, data) == NewSuccessResponse(by, 200, data)

\* ------------------------------------------------------------------------
\* Middleware chain: router.setupMiddleware, router.registerRoutes
\* ------------------------------------------------------------------------
VARIABLES
    reqMethod,     \* c.Request.Method
    reqPath,       \* the route pattern the request path matches
    reqCred,       \* the credentials of the request: <<X-API-Key header,
                   \* api_key query parameter>>
    authEnabled,   \* r.config.Server.Auth.Enabled
    mainPc,        \* transport goroutine: "run", "select", "done"
    mainAt,        \* index of the handler the transport goroutine runs
    innerPc,       \* goroutine started by Timeout: "none", "start", "run",
                   \* "limit", "useCase", "close", "exited"
    innerAt,       \* index of the handler that goroutine runs
    aborted,       \* c.IsAborted()
    done,          \* the channel done of Timeout has been closed
    resp,          \* what has been written to c.Writer, in order
    headers,       \* response headers set so far
    keys,          \* c.Keys
    crashed,       \* a panic left a goroutine unrecovered: the process died
    finishedFirst, \* history: which came first, "inner" (close(done)) or
                   \* "timeout" (the derived context done); "none" before
    trace          \* history: the handlers entered, in order

pipeVars == <<reqMethod, reqPath, reqCred, authEnabled, mainPc, mainAt, innerPc, innerAt,
              aborted, done, resp, headers, keys, crashed, finishedFirst,
              trace>>

\* c.ClientIP() of the request
ClientIP == "10.0.0.1"

\* the request goroutine as a client of the rate limiter
ReqWorker == "r1"

\* r.engine.Use(...) in setupMiddleware
GlobalChain ==
    <<"Recovery", "RequestLogger", "SecurityHeaders", "CORS",
      "RequestSizeLimiter", "Timeout">>

\* the group chain with the rate limiter registered last
GroupChain_LimitLast ==
    (IF authEnabled THEN <<"Authenticate">> ELSE <<>>)
        \o <<"ContentTypeEnforcer", "Limit">>

\* the group chain with authentication registered before the rate limiter
GroupChain_AuthFirst ==
    (IF authEnabled THEN <<"Authenticate">> ELSE <<>>)
        \o <<"Limit", "ContentTypeEnforcer">>

\* api.Use(...) in registerRoutes
GroupChain ==
    <<"Limit">> \o (IF authEnabled THEN <<"Authenticate">> ELSE <<>>)
        \o <<"ContentTypeEnforcer">>

\* ethereum.GET("/:address", CacheControl, GetAddressInfo)
RouteChain == <<"CacheControl", "GetAddressInfo">>

\* r.engine.GET("/health", r.ethereumHandler.HealthCheck)
HealthRoute == "/health"

\* ethereum.GET("/:address", ...) in the group /api/ethereum
AddressRoute == "/api/ethereum/:address"

\* the routes requests are sent to
Paths == {HealthRoute, AddressRoute}

\* the handlers with the health check registered inside the API group
Handlers_HealthInGroup ==
    IF reqMethod # "GET" THEN GlobalChain \o <<"NotFound">>
    ELSE IF reqPath = HealthRoute
    THEN GlobalChain \o GroupChain \o <<"HealthCheck">>
    ELSE GlobalChain \o GroupChain \o RouteChain

\* c.handlers: the chain of the matched route; a method without a route gets
\* the global middleware followed by the router's not-found handler
Handlers ==
    IF reqMethod # "GET" THEN GlobalChain \o <<"NotFound">>
    ELSE IF reqPath = HealthRoute THEN GlobalChain \o <<"HealthCheck">>
    ELSE GlobalChain \o GroupChain \o RouteChain

\* methods of the requests sent to /api/ethereum/:address
Methods == {"GET", "OPTIONS"}

\* credentials a request may carry in X-API-Key or ?api_key=; they are read
\* by Authenticate only, so requests to a router without auth carry none
Credentials == {"", "key-1", "unknown"}

\* apiKeyAuth.apiKeys after registerRoutes
apiKeys == [k \in {"key-1"} |-> "user-1"]

InitPipeIdle ==
    /\ reqMethod = "GET"
    /\ reqPath = AddressRoute
    /\ reqCred = <<"", "">>
    /\ authEnabled = FALSE
    /\ mainPc = "done"
    /\ mainAt = 0
    /\ innerPc = "none"
    /\ innerAt = 0
    /\ aborted = FALSE
    /\ done = FALSE
    /\ resp = <<>>
    /\ headers = {}
    /\ keys = <<>>
    /\ crashed = FALSE
    /\ finishedFirst = "none"
    /\ trace = <<>>

\* a request enters engine.ServeHTTP
InitPipe ==
    /\ reqMethod \in Methods
    /\ reqPath \in Paths
    /\ authEnabled \in BOOLEAN
    /\ reqCred \in (IF authEnabled THEN Credentials \X Credentials
                    ELSE {<<"", "">>})
    /\ mainPc = "run"
    /\ mainAt = 1
    /\ innerPc = "none"
    /\ innerAt = 0
    /\ aborted = FALSE
    /\ done = FALSE
    /\ resp = <<>>
    /\ headers = {}
    /\ keys = <<>>
    /\ crashed = FALSE
    /\ finishedFirst = "none"
    /\ trace = <<>>

\* the transport goroutine is entering handler name
MainEnters(name) ==
    /\ ~crashed
    /\ mainPc = "run"
    /\ Handlers[mainAt] = name

\* the goroutine started by Timeout is entering handler name
InnerEnters(name) ==
    /\ ~crashed
    /\ innerPc = "run"
    /\ Handlers[innerAt] = name

\* c.Next() called by a global middleware: the next handler runs
MainNext ==
    /\ mainAt' = mainAt + 1
    /\ trace' = Append(trace, Handlers[mainAt])
    /\ UNCHANGED mainPc

\* c.Next() in the inner goroutine: the next handler runs unless the context
\* was aborted or the chain is exhausted; then every pending Next() returns
\* and the goroutine is left with close(done)
InnerNext ==
    IF aborted \/ innerAt = Len(Handlers)
    THEN innerPc' = "close" /\ UNCHANGED innerAt
    ELSE innerPc' = "run" /\ innerAt' = innerAt + 1

\* a handler of the inner goroutine returns without calling c.Next()
InnerReturn ==
    /\ innerPc' = "close"
    /\ UNCHANGED innerAt

\* the handler the inner goroutine has entered is recorded
InnerTraced == trace' = Append(trace, Handlers[innerAt])

\* Recovery: defer func() { recover() ... }(); c.Next()
StageRecovery ==
    /\ MainEnters("Recovery")
    /\ MainNext
    /\ UNCHANGED <<reqMethod, reqPath, reqCred, authEnabled, innerPc, innerAt, aborted, done,
                   resp, headers, keys, crashed, finishedFirst>>

\* RequestLogger: c.Set(requestID), c.Set(startTime), X-Request-ID, c.Next()
StageRequestLogger ==
    /\ MainEnters("RequestLogger")
    /\ keys' = [k \in (DOMAIN keys) \cup {"requestID", "startTime"} |->
                   IF k \in {"requestID", "startTime"} THEN "set" ELSE keys[k]]
    /\ headers' = headers \cup {"X-Request-ID"}
    /\ MainNext
    /\ UNCHANGED <<reqMethod, reqPath, reqCred, authEnabled, innerPc, innerAt, aborted, done,
                   resp, crashed, finishedFirst>>

SecurityHeaderNames ==
    {"X-Content-Type-Options", "X-Frame-Options", "X-XSS-Protection",
     "Content-Security-Policy", "Referrer-Policy", "Strict-Transport-Security"}

\* SecurityHeaders
StageSecurityHeaders ==
    /\ MainEnters("SecurityHeaders")
    /\ headers' = headers \cup SecurityHeaderNames
    /\ MainNext
    /\ UNCHANGED <<reqMethod, reqPath, reqCred, authEnabled, innerPc, innerAt, aborted, done,
                   resp, keys, crashed, finishedFirst>>

CORSHeaderNames ==
    {"Access-Control-Allow-Origin", "Access-Control-Allow-Methods",
     "Access-Control-Allow-Headers", "Access-Control-Expose-Headers",
     "Access-Control-Allow-Credentials"}

\* CORS: headers; OPTIONS is answered with AbortWithStatus(204)
StageCORS ==
    /\ MainEnters("CORS")
    /\ headers' = headers \cup CORSHeaderNames
    /\ IF reqMethod = "OPTIONS"
       THEN /\ resp' = Append(resp, StatusOnly("CORS", 204))
            /\ aborted' = TRUE
            /\ mainPc' = "done"
            /\ trace' = Append(trace, "CORS")
            /\ UNCHANGED mainAt
       ELSE /\ MainNext
            /\ UNCHANGED <<resp, aborted>>
    /\ UNCHANGED <<reqMethod, reqPath, reqCred, authEnabled, innerPc, innerAt, done, keys,
                   crashed, finishedFirst>>

\* RequestSizeLimiter: wrap the body in http.MaxBytesReader, c.Next()
StageRequestSizeLimiter ==
    /\ MainEnters("RequestSizeLimiter")
    /\ MainNext
    /\ UNCHANGED <<reqMethod, reqPath, reqCred, authEnabled, innerPc, innerAt, aborted, done,
                   resp, headers, keys, crashed, finishedFirst>>

\* Timeout, up to the select: derive ctx, make done, go func() { c.Next();
\* close(done) }()
StageTimeout ==
    /\ MainEnters("Timeout")
    /\ mainPc' = "select"
    /\ trace' = Append(trace, "Timeout")
    /\ innerPc' = "start"
    /\ innerAt' = mainAt
    /\ UNCHANGED <<reqMethod, reqPath, reqCred, authEnabled, mainAt, aborted, done, resp,
                   headers, keys, crashed, finishedFirst>>

\* the goroutine of Timeout calls c.Next()
InnerStart ==
    /\ ~crashed
    /\ innerPc = "start"
    /\ InnerNext
    /\ UNCHANGED <<reqMethod, reqPath, reqCred, authEnabled, mainPc, mainAt, aborted, done,
                   resp, headers, keys, crashed, finishedFirst, trace>>

\* the deferred cancel() of Timeout
Cancelled(err) == IF err = NoErr THEN <<"context canceled">> ELSE err

\* Timeout, case <-done: return
TimeoutDone ==
    /\ ~crashed
    /\ mainPc = "select"
    /\ done
    /\ mainPc' = "done"
    /\ ctxErr' = Cancelled(ctxErr)
    /\ firstFault' = Earlier(firstFault, "cancel")
    /\ UNCHANGED <<reqMethod, reqPath, reqCred, authEnabled, mainAt, innerPc, innerAt, aborted,
                   done, resp, headers, keys, crashed, finishedFirst, trace>>

\* Timeout, case <-ctx.Done(): AbortWithStatusJSON(408, ...); return
TimeoutExpired ==
    /\ ~crashed
    /\ mainPc = "select"
    /\ ctxErr # NoErr
    /\ resp' = Append(resp, StatusJSON("Timeout", 408, "Request timed out"))
    /\ aborted' = TRUE
    /\ mainPc' = "done"
    /\ UNCHANGED <<reqMethod, reqPath, reqCred, authEnabled, mainAt, innerPc, innerAt, done,
                   headers, keys, crashed, finishedFirst, trace, ctxErr>>

\* the timer of context.WithTimeout fires, or the inbound context is
\* cancelled, while Timeout waits
RequestCtxDone ==
    /\ ~crashed
    /\ mainPc = "select"
    /\ ctxErr = NoErr
    /\ \E e \in CtxErrs : ctxErr' = e
    /\ firstFault' = Earlier(firstFault, "cancel")
    /\ finishedFirst' = Earlier(finishedFirst, "timeout")
    /\ UNCHANGED <<reqMethod, reqPath, reqCred, authEnabled, mainPc, mainAt, innerPc, innerAt,
                   aborted, done, resp, headers, keys, crashed, trace>>

\* Limit(): the request goroutine takes the limiter's mutex
StageLimit ==
    /\ InnerEnters("Limit")
    /\ LimitLock(ReqWorker, ClientIP)
    /\ innerPc' = "limit"
    /\ InnerTraced
    /\ UNCHANGED <<reqMethod, reqPath, reqCred, authEnabled, mainPc, mainAt, innerAt, aborted,
                   done, resp, headers, keys, crashed, finishedFirst>>

\* the steps of Limit() under the mutex, taken by the request goroutine
StageLimitStep ==
    /\ ~crashed
    /\ innerPc = "limit"
    /\ \/ LimitWhitelisted(ReqWorker)
       \/ LimitPrune(ReqWorker)
       \/ LimitReject(ReqWorker)
       \/ LimitAdmit(ReqWorker)
    /\ UNCHANGED pipeVars

\* Limit(): c.Next() after the mutex was released
StageLimitNext ==
    /\ ~crashed
    /\ innerPc = "limit"
    /\ rlPc[ReqWorker] \in {"nextExempt", "next"}
    /\ LimitReturn(ReqWorker)
    /\ InnerNext
    /\ UNCHANGED <<reqMethod, reqPath, reqCred, authEnabled, mainPc, mainAt, aborted, done,
                   resp, headers, keys, crashed, finishedFirst, trace>>

\* Limit() answering 429 without c.Abort() and return: the chain goes on
StageLimitRejected_NoAbort ==
    /\ ~crashed
    /\ innerPc = "limit"
    /\ rlPc[ReqWorker] = "rejected"
    /\ LimitReturn(ReqWorker)
    /\ resp' = Append(resp, TooManyRequests("Limit"))
    /\ InnerNext
    /\ UNCHANGED <<reqMethod, reqPath, reqCred, authEnabled, mainPc, mainAt, aborted, done,
                   headers, keys, crashed, finishedFirst, trace>>

\* Limit(): response.TooManyRequests(c); c.Abort(); return
StageLimitRejected ==
    /\ ~crashed
    /\ innerPc = "limit"
    /\ rlPc[ReqWorker] = "rejected"
    /\ LimitReturn(ReqWorker)
    /\ resp' = Append(resp, TooManyRequests("Limit"))
    /\ aborted' = TRUE
    /\ InnerReturn
    /\ UNCHANGED <<reqMethod, reqPath, reqCred, authEnabled, mainPc, mainAt, done, headers,
                   keys, crashed, finishedFirst, trace>>

\* the lookup key with the query parameter taking precedence
APIKeyOf_QueryFirst(header, query) == IF query = "" THEN header ELSE query

\* apiKey := c.GetHeader("X-API-Key"); if apiKey == "" { c.Query("api_key") }
APIKeyOf(header, query) == IF header = "" THEN query ELSE header

\* Authenticate
StageAuthenticate ==
    /\ InnerEnters("Authenticate")
    /\ InnerTraced
    /\  LET apiKey == APIKeyOf(reqCred[1], reqCred[2])
        IN  IF apiKey = ""
            THEN /\ resp' = Append(resp, StatusJSON("Authenticate", 401,
                                                    "API key is required"))
                 /\ aborted' = TRUE
                 /\ InnerReturn
                 /\ UNCHANGED keys
            ELSE IF apiKey \notin DOMAIN apiKeys
            THEN /\ resp' = Append(resp, StatusJSON("Authenticate", 401,
                                                    "Invalid API key"))
                 /\ aborted' = TRUE
                 /\ InnerReturn
                 /\ UNCHANGED keys
            ELSE /\ keys' = [k \in (DOMAIN keys) \cup {"userID"} |->
                                IF k = "userID" THEN apiKeys[apiKey]
                                ELSE keys[k]]
                 /\ InnerNext
                 /\ UNCHANGED <<resp, aborted>>
    /\ UNCHANGED <<reqMethod, reqPath, reqCred, authEnabled, mainPc, mainAt, done, headers,
                   crashed, finishedFirst>>

\* Content-Type values of a request
ContentTypes == {"", "application/json", "text/plain"}

\* ContentTypeEnforcer
StageContentTypeEnforcer ==
    /\ InnerEnters("ContentTypeEnforcer")
    /\ InnerTraced
    /\ IF reqMethod \in {"GET", "HEAD", "OPTIONS"}
       THEN /\ InnerNext
            /\ UNCHANGED <<resp, aborted>>
       ELSE \E contentType \in ContentTypes :
              IF contentType # "application/json"
              THEN /\ resp' = Append(resp,
                          StatusJSON("ContentTypeEnforcer", 415,
                                     "Content-Type must be application/json"))
                   /\ aborted' = TRUE
                   /\ InnerReturn
              ELSE /\ InnerNext
                   /\ UNCHANGED <<resp, aborted>>
    /\ UNCHANGED <<reqMethod, reqPath, reqCred, authEnabled, mainPc, mainAt, done, headers,
                   keys, crashed, finishedFirst>>

\* CacheControl: Cache-Control and Expires headers, c.Next()
StageCacheControl ==
    /\ InnerEnters("CacheControl")
    /\ InnerTraced
    /\ headers' = headers \cup {"Cache-Control", "Expires"}
    /\ InnerNext
    /\ UNCHANGED <<reqMethod, reqPath, reqCred, authEnabled, mainPc, mainAt, aborted, done,
                   resp, keys, crashed, finishedFirst>>

\* EthereumHandler.GetAddressInfo up to the call of the use case
HandlerStart ==
    /\ InnerEnters("GetAddressInfo")
    /\ InnerTraced
    /\ \E address \in ReqAddresses :
          IF ~IsValidAddress(address)
          THEN /\ resp' = Append(resp,
                      BadRequest("GetAddressInfo",
                                 "Invalid Ethereum address format", NoErr))
               /\ InnerReturn
               /\ UNCHANGED aggVars
          ELSE /\ CallGetAddressInfo(FormatAddress(address))
               /\ innerPc' = "useCase"
               /\ UNCHANGED <<innerAt, resp>>
    /\ UNCHANGED <<reqMethod, reqPath, reqCred, authEnabled, mainPc, mainAt, aborted, done,
                   headers, keys, crashed, finishedFirst>>

\* EthereumHandler.GetAddressInfo after the use case returned
HandlerRespond ==
    /\ ~crashed
    /\ innerPc = "useCase"
    /\ ucPc = "returned"
    /\ resp' = Append(resp,
          IF ucRet.err # NoErr
          THEN InternalServerError("GetAddressInfo", ucRet.err)
          ELSE Success("GetAddressInfo", FormatAddressInfo(ucRet.info)))
    /\ InnerReturn
    /\ UNCHANGED <<reqMethod, reqPath, reqCred, authEnabled, mainPc, mainAt, aborted, done,
                   headers, keys, crashed, finishedFirst, trace>>

\* c.JSON(200, gin.H{"status": "ok"})
HealthOK ==
    [by |-> "HealthCheck", status |-> 200, envelope |-> "ok",
     message |-> "", error |-> NoErr, data |-> NoData]

\* EthereumHandler.HealthCheck
StageHealthCheck ==
    /\ InnerEnters("HealthCheck")
    /\ InnerTraced
    /\ resp' = Append(resp, HealthOK)
    /\ InnerReturn
    /\ UNCHANGED <<reqMethod, reqPath, reqCred, authEnabled, mainPc, mainAt,
                   aborted, done, headers, keys, crashed, finishedFirst>>

\* a send on done in place of close(done): it needs Timeout to be receiving
InnerClose_Send ==
    /\ ~crashed
    /\ innerPc = "close"
    /\ mainPc = "select"
    /\ done' = TRUE
    /\ innerPc' = "exited"
    /\ finishedFirst' = Earlier(finishedFirst, "inner")
    /\ UNCHANGED <<reqMethod, reqPath, reqCred, authEnabled, mainPc, mainAt, innerAt, aborted,
                   resp, headers, keys, crashed, trace>>

\* close(done), the last statement of the goroutine started by Timeout
InnerClose ==
    /\ ~crashed
    /\ innerPc = "close"
    /\ done' = TRUE
    /\ innerPc' = "exited"
    /\ finishedFirst' = Earlier(finishedFirst, "inner")
    /\ UNCHANGED <<reqMethod, reqPath, reqCred, authEnabled, mainPc, mainAt, innerAt, aborted,
                   resp, headers, keys, crashed, trace>>

\* a handler running on the transport goroutine panics: the stack unwinds to
\* the deferred function of Recovery, which answers 500
PanicMain ==
    /\ ~crashed
    /\ mainPc = "run"
    /\ mainAt > 1
    /\ resp' = Append(resp, StatusJSON("Recovery", 500,
                                       "Internal server error"))
    /\ aborted' = TRUE
    /\ mainPc' = "done"
    /\ UNCHANGED <<reqMethod, reqPath, reqCred, authEnabled, mainAt, innerPc, innerAt, done,
                   headers, keys, crashed, finishedFirst, trace>>

\* a handler running on the goroutine started by Timeout panics: that
\* goroutine's stack holds no deferred recover
PanicInner ==
    /\ ~crashed
    /\ innerPc = "run"
    /\ crashed' = TRUE
    /\ UNCHANGED <<reqMethod, reqPath, reqCred, authEnabled, mainPc, mainAt, innerPc, innerAt,
                   aborted, done, resp, headers, keys, finishedFirst, trace>>

\* limiter states a request may find: fresh, the client's quota used up at
\* this instant, or the client whitelisted
InitRLForRequest ==
    \/ InitRL
    \/ /\ ips = [ip \in {ClientIP} |-> [k \in 1..Limit |-> 0]]
       /\ admitted = [ip \in IPs |->
                         IF ip = ClientIP THEN [k \in 1..Limit |-> 0] ELSE <<>>]
       /\ sweepsSince = [ip \in IPs |-> IF ip = ClientIP THEN 0 ELSE 2]
       /\ whitelistIPs = {}
       /\ mu = Free
       /\ clock = 0
       /\ rlPc = [w \in Workers |-> "idle"]
       /\ rlIP = [w \in Workers |-> ""]
       /\ rlNow = [w \in Workers |-> 0]
       /\ rlValid = [w \in Workers |-> <<>>]
       /\ sleepStart = 0
       /\ requests = 0
       /\ lastPrune = [ip \in IPs |-> 0]
    \/ /\ ips = <<>>
       /\ admitted = [ip \in IPs |-> <<>>]
       /\ sweepsSince = [ip \in IPs |-> 2]
       /\ whitelistIPs = {ClientIP}
       /\ mu = Free
       /\ clock = 0
       /\ rlPc = [w \in Workers |-> "idle"]
       /\ rlIP = [w \in Workers |-> ""]
       /\ rlNow = [w \in Workers |-> 0]
       /\ rlValid = [w \in Workers |-> <<>>]
       /\ sleepStart = 0
       /\ requests = 0
       /\ lastPrune = [ip \in IPs |-> 0]

\* ------------------------------------------------------------------------
\* Process: main, router.NewRouter, shutdown
\* ------------------------------------------------------------------------
VARIABLES
    procPc,        \* position of main: "idle", "start", "modeSet", "serving",
                   \* "signalled", "closed", "exited"
    ginMode,       \* gin.Mode()
    cfgMode,       \* cfg.Server.Mode
    routes,        \* the route patterns registered on the engine
    ethClosed,     \* ethClient.Close() was called
    cfgAuthEnabled,\* cfg.Server.Auth.Enabled
    cfgAPIKeys,    \* cfg.Server.Auth.APIKeys: map from API key to user ID
    registry,      \* apiKeyAuth.apiKeys; empty while no APIKeyAuth exists
    reqPc          \* each request slot of the HTTP server: "none",
                   \* "accepted", "calling" (its upstream calls are issued),
                   \* "done", "killed" (the process exited under it)

procVars == <<procPc, ginMode, cfgMode, routes, ethClosed, cfgAuthEnabled,
              cfgAPIKeys, registry, reqPc>>

\* number of requests the server handles at once in the model
MaxInflight == 2

Reqs == 1..MaxInflight

\* gin.DebugMode, gin.ReleaseMode, gin.TestMode
GinModes == {"debug", "release", "test"}

\* ServerConfig.Mode: "debug or release", read from GIN_MODE
CfgModes == {"debug", "release", "test"}

\* GET /debug/ping
DebugRoute == "/debug/ping"

\* the API key registerRoutes adds in debug mode, and its user
DevAPIKey == "development-api-key"

DevUser == "dev-user"

\* the identities registerRoutes whitelists in debug mode
Loopback == {"127.0.0.1", "::1"}

\* the maps API_KEYS can configure: any of two keys, one of them spelled
\* like the development key
CfgAPIKeySets ==
    {[k \in S |-> IF k = DevAPIKey THEN "ops-user" ELSE "user-1"] :
        S \in SUBSET {"key-1", DevAPIKey}}

InitProcIdle ==
    /\ cfgAuthEnabled = FALSE
    /\ cfgAPIKeys = <<>>
    /\ registry = <<>>
    /\ procPc = "idle"
    /\ ginMode = "debug"
    /\ cfgMode = "debug"
    /\ routes = {}
    /\ ethClosed = FALSE
    /\ reqPc = [r \in Reqs |-> "none"]

\* main after LoadConfig and NewClient.  gin takes its mode from GIN_MODE in
\* the environment of the process (debug when unset); LoadConfig reads
\* GIN_MODE after godotenv.Load, which adds variables of .env that the
\* environment does not set
InitProc ==
    /\ cfgAuthEnabled \in BOOLEAN
    /\ cfgAPIKeys \in CfgAPIKeySets
    /\ registry = <<>>
    /\ procPc = "start"
    /\ ginMode \in GinModes
    /\ cfgMode \in CfgModes
    /\ ginMode = "debug" \/ cfgMode = ginMode
    /\ routes = {}
    /\ ethClosed = FALSE
    /\ reqPc = [r \in Reqs |-> "none"]

\* the mode test that never switches gin to release mode
SetsReleaseMode_Never(gm, cm) == FALSE

\* if gin.Mode() == gin.DebugMode && cfg.Server.Mode == "release"
SetsReleaseMode(gm, cm) == gm = "debug" /\ cm = "release"

\* NewRouter: gin.SetMode(gin.ReleaseMode) when the test holds, gin.New()
NewRouterSetMode ==
    /\ procPc = "start"
    /\ ginMode' = IF SetsReleaseMode(ginMode, cfgMode) THEN "release"
                  ELSE ginMode
    /\ procPc' = "modeSet"
    /\ UNCHANGED <<cfgMode, cfgAuthEnabled, cfgAPIKeys, registry, routes, ethClosed, reqPc>>

\* a mode test that takes every mode for the debug mode
IsDebugMode_Always(gm) == TRUE

\* gin.Mode() == gin.DebugMode
IsDebugMode(gm) == gm = "debug"

\* apiKeyAuth.AddAPIKey for every entry of the map more, after the entries
\* of the map reg
AddAPIKeys(reg, more) ==
    [k \in (DOMAIN reg) \cup (DOMAIN more) |->
        IF k \in DOMAIN more THEN more[k] ELSE reg[k]]

\* registerRoutes: the rate limiter with the loopback identities whitelisted
\* in debug mode; with auth enabled the registry, holding the development
\* key in debug mode and then the configured keys; /health, the address
\* route, and the debug group in debug mode; then main starts router.Run()
\* in a goroutine
RegisterRoutes ==
    /\ procPc = "modeSet"
    /\ whitelistIPs' = IF IsDebugMode(ginMode) THEN Loopback ELSE {}
    /\ registry' =
          IF ~cfgAuthEnabled THEN <<>>
          ELSE AddAPIKeys(IF IsDebugMode(ginMode)
                          THEN [k \in {DevAPIKey} |-> DevUser] ELSE <<>>,
                          cfgAPIKeys)
    /\ routes' = {HealthRoute, AddressRoute}
                    \cup (IF IsDebugMode(ginMode) THEN {DebugRoute} ELSE {})
    /\ procPc' = "serving"
    /\ UNCHANGED <<ginMode, cfgMode, cfgAuthEnabled, cfgAPIKeys, ethClosed,
                   reqPc>>
    /\ UNCHANGED <<ips, mu, clock, rlPc, rlIP, rlNow, rlValid, sleepStart,
                   lastPrune, admitted, sweepsSince, requests>>

\* the server goroutines run as long as the process has not exited
ServerRuns == procPc \in {"serving", "signalled", "closed"}

\* the listener of engine.Run accepts a connection and starts a request
Accept(r) ==
    /\ ServerRuns
    /\ reqPc[r] = "none"
    /\ reqPc' = [reqPc EXCEPT ![r] = "accepted"]
    /\ UNCHANGED <<procPc, ginMode, cfgMode, cfgAuthEnabled, cfgAPIKeys, registry, routes, ethClosed>>

\* the handler of request r calls the use case, which issues the upstream
\* calls on the shared client
IssueCalls(r) ==
    /\ ServerRuns
    /\ reqPc[r] = "accepted"
    /\ reqPc' = [reqPc EXCEPT ![r] = "calling"]
    /\ UNCHANGED <<procPc, ginMode, cfgMode, cfgAuthEnabled, cfgAPIKeys, registry, routes, ethClosed>>

\* request r is answered
Complete(r) ==
    /\ ServerRuns
    /\ reqPc[r] \in {"accepted", "calling"}
    /\ reqPc' = [reqPc EXCEPT ![r] = "done"]
    /\ UNCHANGED <<procPc, ginMode, cfgMode, cfgAuthEnabled, cfgAPIKeys, registry, routes, ethClosed>>

\* <-quit: SIGINT or SIGTERM arrives
Signal ==
    /\ procPc = "serving"
    /\ procPc' = "signalled"
    /\ UNCHANGED <<ginMode, cfgMode, cfgAuthEnabled, cfgAPIKeys, registry, routes, ethClosed, reqPc>>

\* main after the signal: context.WithTimeout (unused), ethClient.Close()
CloseClient ==
    /\ procPc = "signalled"
    /\ ethClosed' = TRUE
    /\ procPc' = "closed"
    /\ UNCHANGED <<ginMode, cfgMode, cfgAuthEnabled, cfgAPIKeys, registry, routes, reqPc>>

\* main returns: the process exits and takes the server goroutines with it
Exit ==
    /\ procPc = "closed"
    /\ procPc' = "exited"
    /\ reqPc' = [r \in Reqs |->
                   IF reqPc[r] \in {"accepted", "calling"} THEN "killed"
                   ELSE reqPc[r]]
    /\ UNCHANGED <<ginMode, cfgMode, cfgAuthEnabled, cfgAPIKeys, registry, routes, ethClosed>>

\* ------------------------------------------------------------------------
\* Unit conversion of the use case on integers of any size
\* ------------------------------------------------------------------------
VARIABLES
    convPc,        \* "idle", "input" (wei amounts read), "converted"
    convWei,       \* the wei amount, as groups
    convGwei,      \* the amount in gwei
    convEther      \* the amount in ether

convVars == <<convPc, convWei, convGwei, convEther>>

\* largest of the small values a group of the amounts takes
MaxGroup == 2

\* the values of a group: small ones, the 12 and the half of the examples,
\* and the largest group
GroupVals == (0..MaxGroup) \cup {12, Pow10_9 \div 2, Pow10_9 - 1}

\* the wei amounts converted: up to 10^27 - 1
WeiAmounts == {<<g2, g1, g0>> : g2 \in GroupVals, g1 \in GroupVals,
                               g0 \in GroupVals}

NoQuotient == [whole |-> <<>>, frac |-> <<>>]

InitConvIdle ==
    /\ convPc = "idle"
    /\ convWei = <<0, 0, 0>>
    /\ convGwei = NoQuotient
    /\ convEther = NoQuotient

InitConv ==
    /\ convPc = "input"
    /\ convWei \in WeiAmounts
    /\ convGwei = NoQuotient
    /\ convEther = NoQuotient

\* the two conversions of GetAddressInfo applied to one amount
Convert ==
    /\ convPc = "input"
    /\ convGwei' = QuoGwei(convWei)
    /\ convEther' = QuoEther(convWei)
    /\ convPc' = "converted"
    /\ UNCHANGED convWei

\* ------------------------------------------------------------------------
\* Address check of the handler on strings of any shape
\* ------------------------------------------------------------------------
VARIABLES
    valPc,         \* "idle", "input" (address := c.Param("address")),
                   \* "rejected" (400 written), "accepted" (use case called)
    valAddress,    \* the :address parameter
    valStatus,     \* status written by the address check, 0 when none
    valFormatted   \* the address handed to the use case

valVars == <<valPc, valAddress, valStatus, valFormatted>>

\* how far the number of characters after the prefix goes from forty
MaxLenDelta == 1

\* the :address parameters the check is applied to: what stands where the
\* prefix belongs, then a body of n characters that are all the same but
\* for the one at pos, with and without a blank before and after
AddressStrings ==
    LET Prefixes  == {<<"0", "x">>, <<"0", "X">>, <<>>, <<"x", "0">>}
        Paddings  == {<<>>, <<" ">>}
        FillChars == {"0", "a", "F"}
        OddChars  == {"9", "f", "A", "g", "G", " ", "x"}
        Body(n, fill, odd, pos) ==
            [k \in 1..n |-> IF k = pos THEN odd ELSE fill]
    IN  {lead \o prefix \o Body(n, fill, odd, pos) \o trail :
            lead \in Paddings, trail \in Paddings, prefix \in Prefixes,
            n \in (40 - MaxLenDelta)..(40 + MaxLenDelta),
            fill \in FillChars, odd \in OddChars, pos \in {1, 20, 40}}

InitValIdle ==
    /\ valPc = "idle"
    /\ valAddress = <<>>
    /\ valStatus = 0
    /\ valFormatted = <<>>

InitVal ==
    /\ valPc = "input"
    /\ valAddress \in AddressStrings
    /\ valStatus = 0
    /\ valFormatted = <<>>

\* a check applied to the normalised address
HandlerAccepts_NormalizesFirst(address) ==
    IsValidAddress(FormatAddress(address))

\* if !h.validator.IsValidAddress(address) { BadRequest; return }
HandlerAccepts(address) == IsValidAddress(address)

\* GetAddressInfo, the address is not valid: response.BadRequest, return
CheckRejects ==
    /\ valPc = "input"
    /\ ~HandlerAccepts(valAddress)
    /\ valStatus' = BadRequest("GetAddressInfo",
                               "Invalid Ethereum address format", NoErr).status
    /\ valPc' = "rejected"
    /\ UNCHANGED <<valAddress, valFormatted>>

\* GetAddressInfo, the address is valid: FormatAddress, call of the use case
CheckAccepts ==
    /\ valPc = "input"
    /\ HandlerAccepts(valAddress)
    /\ valFormatted' = FormatAddress(valAddress)
    /\ valPc' = "accepted"
    /\ UNCHANGED <<valAddress, valStatus>>

vars == <<aggVars, rlVars, pipeVars, procVars, convVars, valVars>>

\* one invocation of the use case under a context its caller may cancel
Init ==
    /\ InitAggIdle
    /\ retryAttempts \in RetryAttemptsValues
    /\ InitRL
    /\ InitPipeIdle
    /\ InitProcIdle
    /\ InitConvIdle
    /\ InitValIdle

Next ==
    \/ \E a \in Addresses :
          CallGetAddressInfo(a) /\ UNCHANGED <<rlVars, pipeVars, procVars, convVars, valVars>>
    \/ \E g \in Ops : UpstreamOk(g) /\ UNCHANGED <<rlVars, pipeVars, procVars, convVars, valVars>>
    \/ \E g \in Ops : UpstreamFail(g) /\ UNCHANGED <<rlVars, pipeVars, procVars, convVars, valVars>>
    \/ \E g \in Ops : SendErr(g) /\ UNCHANGED <<rlVars, pipeVars, procVars, convVars, valVars>>
    \/ SelectCtxDone /\ UNCHANGED <<rlVars, pipeVars, procVars, convVars, valVars>>
    \/ SelectErr /\ UNCHANGED <<rlVars, pipeVars, procVars, convVars, valVars>>
    \/ \E g \in Ops : SelectValue(g) /\ UNCHANGED <<rlVars, pipeVars, procVars, convVars, valVars>>
    \/ ReturnInfo /\ UNCHANGED <<rlVars, pipeVars, procVars, convVars, valVars>>
    \/ CtxDone /\ UNCHANGED <<rlVars, pipeVars, procVars, convVars, valVars>>

Spec == Init /\ [][Next]_vars

\* the Go scheduler: the goroutine of GetAddressInfo takes a step whenever
\* its select statement has a ready case or the loop is over, and each
\* spawned goroutine takes its own steps (an upstream call returns: the
\* client bounds every call by its own timeout).  The rendezvous on a value
\* channel is a step of the receiver.  Nothing obliges the caller to cancel.
FairUseCase ==
    /\ WF_vars(/\ \/ SelectCtxDone
                   \/ SelectErr
                   \/ \E g \in Ops : SelectValue(g)
                   \/ ReturnInfo
                /\ UNCHANGED <<rlVars, pipeVars, procVars, convVars, valVars>>)
    /\ \A g \in Ops :
          WF_vars(/\ UpstreamOk(g) \/ UpstreamFail(g) \/ SendErr(g)
                  /\ UNCHANGED <<rlVars, pipeVars, procVars, convVars, valVars>>)

\* one invocation of the use case, scheduled fairly
SpecFair == Init /\ [][Next]_vars /\ FairUseCase

\* the rate limiter under concurrent requests, whitelist changes and sweeps
InitLimiter ==
    /\ InitAggIdle
    /\ retryAttempts = DefaultRetryAttempts
    /\ InitRL
    /\ InitPipeIdle
    /\ InitProcIdle
    /\ InitConvIdle
    /\ InitValIdle

NextLimiter ==
    \/ WhitelistLock /\ UNCHANGED <<aggVars, pipeVars, procVars, convVars, valVars>>
    \/ \E ip \in IPs : AddToWhitelist(ip) /\ UNCHANGED <<aggVars, pipeVars, procVars, convVars, valVars>>
    \/ \E ip \in IPs :
          RemoveFromWhitelist(ip) /\ UNCHANGED <<aggVars, pipeVars, procVars, convVars, valVars>>
    \/ \E w \in Workers, ip \in IPs :
          LimitLock(w, ip) /\ UNCHANGED <<aggVars, pipeVars, procVars, convVars, valVars>>
    \/ \E w \in Workers : LimitWhitelisted(w) /\ UNCHANGED <<aggVars, pipeVars, procVars, convVars, valVars>>
    \/ \E w \in Workers : LimitPrune(w) /\ UNCHANGED <<aggVars, pipeVars, procVars, convVars, valVars>>
    \/ \E w \in Workers : LimitReject(w) /\ UNCHANGED <<aggVars, pipeVars, procVars, convVars, valVars>>
    \/ \E w \in Workers : LimitAdmit(w) /\ UNCHANGED <<aggVars, pipeVars, procVars, convVars, valVars>>
    \/ \E w \in Workers : LimitReturn(w) /\ UNCHANGED <<aggVars, pipeVars, procVars, convVars, valVars>>
    \/ CleanupLock /\ UNCHANGED <<aggVars, pipeVars, procVars, convVars, valVars>>
    \/ Cleanup /\ UNCHANGED <<aggVars, pipeVars, procVars, convVars, valVars>>
    \/ Tick /\ UNCHANGED <<aggVars, pipeVars, procVars, convVars, valVars>>

SpecLimiter == InitLimiter /\ [][NextLimiter]_vars

\* one request to /api/ethereum/:address through the middleware chain
InitPipeline ==
    /\ InitAggIdle
    /\ retryAttempts = DefaultRetryAttempts
    /\ InitRLForRequest
    /\ InitPipe
    /\ InitProcIdle
    /\ InitConvIdle
    /\ InitValIdle

\* a step of the use case and its goroutines while the process is alive
AggStepAlive ==
    /\ ~crashed
    /\ \/ \E g \in Ops : UpstreamOk(g)
       \/ \E g \in Ops : UpstreamFail(g)
       \/ \E g \in Ops : SendErr(g)
       \/ SelectCtxDone
       \/ SelectErr
       \/ \E g \in Ops : SelectValue(g)
       \/ ReturnInfo

NextPipeline ==
    \/ StageRecovery /\ UNCHANGED <<aggVars, rlVars, procVars, convVars, valVars>>
    \/ StageRequestLogger /\ UNCHANGED <<aggVars, rlVars, procVars, convVars, valVars>>
    \/ StageSecurityHeaders /\ UNCHANGED <<aggVars, rlVars, procVars, convVars, valVars>>
    \/ StageCORS /\ UNCHANGED <<aggVars, rlVars, procVars, convVars, valVars>>
    \/ StageRequestSizeLimiter /\ UNCHANGED <<aggVars, rlVars, procVars, convVars, valVars>>
    \/ StageTimeout /\ UNCHANGED <<aggVars, rlVars, procVars, convVars, valVars>>
    \/ InnerStart /\ UNCHANGED <<aggVars, rlVars, procVars, convVars, valVars>>
    \/ TimeoutDone /\ UNCHANGED <<ucPc, ucAddress, goPc, upRet, errCh, i,
                                  gasPrice, blockNumber, balance, received,
                                  calls, retryAttempts, ucRet, rlVars, procVars, convVars, valVars>>
    \/ TimeoutExpired /\ UNCHANGED <<aggVars, rlVars, procVars, convVars, valVars>>
    \/ RequestCtxDone /\ UNCHANGED <<ucPc, ucAddress, goPc, upRet, errCh, i,
                                     gasPrice, blockNumber, balance, received,
                                     calls, retryAttempts, ucRet, rlVars, procVars, convVars, valVars>>
    \/ StageLimit /\ UNCHANGED <<aggVars, procVars, convVars, valVars>>
    \/ StageLimitStep /\ UNCHANGED <<aggVars, procVars, convVars, valVars>>
    \/ StageLimitNext /\ UNCHANGED <<aggVars, procVars, convVars, valVars>>
    \/ StageLimitRejected /\ UNCHANGED <<aggVars, procVars, convVars, valVars>>
    \/ StageAuthenticate /\ UNCHANGED <<aggVars, rlVars, procVars, convVars, valVars>>
    \/ StageContentTypeEnforcer /\ UNCHANGED <<aggVars, rlVars, procVars, convVars, valVars>>
    \/ StageCacheControl /\ UNCHANGED <<aggVars, rlVars, procVars, convVars, valVars>>
    \/ HandlerStart /\ UNCHANGED <<rlVars, procVars, convVars, valVars>>
    \/ StageHealthCheck /\ UNCHANGED <<aggVars, rlVars, procVars, convVars, valVars>>
    \/ HandlerRespond /\ UNCHANGED <<aggVars, rlVars, procVars, convVars, valVars>>
    \/ InnerClose /\ UNCHANGED <<aggVars, rlVars, procVars, convVars, valVars>>
    \/ PanicMain /\ UNCHANGED <<aggVars, rlVars, procVars, convVars, valVars>>
    \/ PanicInner /\ UNCHANGED <<aggVars, rlVars, procVars, convVars, valVars>>
    \/ AggStepAlive /\ UNCHANGED <<rlVars, pipeVars, procVars, convVars, valVars>>

SpecPipeline == InitPipeline /\ [][NextPipeline]_vars

\* a step of the goroutine started by Timeout, other than a panic
InnerStep ==
    \/ InnerStart /\ UNCHANGED <<aggVars, rlVars, procVars, convVars, valVars>>
    \/ StageLimit /\ UNCHANGED <<aggVars, procVars, convVars, valVars>>
    \/ StageLimitStep /\ UNCHANGED <<aggVars, procVars, convVars, valVars>>
    \/ StageLimitNext /\ UNCHANGED <<aggVars, procVars, convVars, valVars>>
    \/ StageLimitRejected /\ UNCHANGED <<aggVars, procVars, convVars, valVars>>
    \/ StageAuthenticate /\ UNCHANGED <<aggVars, rlVars, procVars, convVars, valVars>>
    \/ StageContentTypeEnforcer /\ UNCHANGED <<aggVars, rlVars, procVars, convVars, valVars>>
    \/ StageCacheControl /\ UNCHANGED <<aggVars, rlVars, procVars, convVars, valVars>>
    \/ HandlerStart /\ UNCHANGED <<rlVars, procVars, convVars, valVars>>
    \/ StageHealthCheck /\ UNCHANGED <<aggVars, rlVars, procVars, convVars, valVars>>
    \/ HandlerRespond /\ UNCHANGED <<aggVars, rlVars, procVars, convVars, valVars>>
    \/ InnerClose /\ UNCHANGED <<aggVars, rlVars, procVars, convVars, valVars>>

\* the Go scheduler while the process is alive: the goroutine started by
\* Timeout takes its steps, and so do the goroutine of GetAddressInfo (the
\* same one, inside the use case) and the three goroutines it spawned.
\* Nothing obliges a handler to panic, the timer to fire or the client to
\* hang up.
FairRequest ==
    /\ WF_vars(InnerStep)
    /\ WF_vars(/\ ~crashed
                /\ \/ SelectCtxDone
                   \/ SelectErr
                   \/ \E g \in Ops : SelectValue(g)
                   \/ ReturnInfo
                /\ UNCHANGED <<rlVars, pipeVars, procVars, convVars, valVars>>)
    /\ \A g \in Ops :
          WF_vars(/\ ~crashed
                  /\ UpstreamOk(g) \/ UpstreamFail(g) \/ SendErr(g)
                  /\ UNCHANGED <<rlVars, pipeVars, procVars, convVars, valVars>>)

\* the requests of InitPipeline that carry no credential, from a client
\* that is not whitelisted
InitPipelineFair ==
    /\ InitPipeline
    /\ reqCred = <<"", "">>
    /\ whitelistIPs = {}

\* one such request through the middleware chain, scheduled fairly
SpecPipelineFair == InitPipelineFair /\ [][NextPipeline]_vars /\ FairRequest

\* the process from the construction of the router to its exit
InitProcess ==
    /\ InitAggIdle
    /\ retryAttempts = DefaultRetryAttempts
    /\ InitRL
    /\ InitPipeIdle
    /\ InitProc
    /\ InitConvIdle
    /\ InitValIdle

NextProcess ==
    \/ NewRouterSetMode /\ UNCHANGED <<aggVars, rlVars, pipeVars, convVars, valVars>>
    \/ RegisterRoutes /\ UNCHANGED <<aggVars, pipeVars, convVars, valVars>>
    \/ \E r \in Reqs : Accept(r) /\ UNCHANGED <<aggVars, rlVars, pipeVars, convVars, valVars>>
    \/ \E r \in Reqs : IssueCalls(r) /\ UNCHANGED <<aggVars, rlVars, pipeVars, convVars, valVars>>
    \/ \E r \in Reqs : Complete(r) /\ UNCHANGED <<aggVars, rlVars, pipeVars, convVars, valVars>>
    \/ Signal /\ UNCHANGED <<aggVars, rlVars, pipeVars, convVars, valVars>>
    \/ CloseClient /\ UNCHANGED <<aggVars, rlVars, pipeVars, convVars, valVars>>
    \/ Exit /\ UNCHANGED <<aggVars, rlVars, pipeVars, convVars, valVars>>

SpecProcess == InitProcess /\ [][NextProcess]_vars

\* the conversions of the use case on their own
InitConvert ==
    /\ InitAggIdle
    /\ retryAttempts = DefaultRetryAttempts
    /\ InitRL
    /\ InitPipeIdle
    /\ InitProcIdle
    /\ InitConv
    /\ InitValIdle

NextConvert ==
    Convert /\ UNCHANGED <<aggVars, rlVars, pipeVars, procVars, valVars>>

SpecConvert == InitConvert /\ [][NextConvert]_vars

\* the address check of the handler on its own
InitValidate ==
    /\ InitAggIdle
    /\ retryAttempts = DefaultRetryAttempts
    /\ InitRL
    /\ InitPipeIdle
    /\ InitProcIdle
    /\ InitConvIdle
    /\ InitVal

NextValidate ==
    \/ CheckRejects /\ UNCHANGED <<aggVars, rlVars, pipeVars, procVars, convVars>>
    \/ CheckAccepts /\ UNCHANGED <<aggVars, rlVars, pipeVars, procVars, convVars>>

SpecValidate == InitValidate /\ [][NextValidate]_vars

\* ------------------------------------------------------------------------
\* Properties of the aggregator
\* ------------------------------------------------------------------------

\* the call has returned (info, nil) with a populated AddressInfo
ReturnedOk == ucPc = "returned" /\ ucRet.err = NoErr /\ ~ucRet.info.nil

\* the call has returned (nil, err)
ReturnedErr == ucPc = "returned" /\ ucRet.err # NoErr /\ ucRet.info.nil

\* C1: GetAddressInfo returns either an AddressInfo whose gas price, block
\* number and balance are the values its own three upstream calls delivered,
\* with a nil error, or a nil result with a non-nil error; success is never
\* returned while one of the three values was not received.
C1_AllOrNothing ==
    ucPc = "returned" =>
        \/ /\ ReturnedOk
           /\ received = Ops
           /\ \A g \in Ops : upRet[g].err = NoErr
           /\ ucRet.info.GasPrice.Wei = upRet["gas price"].val
           /\ ucRet.info.CurrentBlock = upRet["block number"].val
           /\ ucRet.info.Balance.Wei = upRet["balance"].val
        \/ ReturnedErr

\* a success whose three values are all non-zero
C1_Witness ==
    /\ ReturnedOk
    /\ ucRet.info.GasPrice.Wei > 0
    /\ ucRet.info.CurrentBlock > 0
    /\ ucRet.info.Balance.Wei > 0

\* C2: if at least one of the three upstream calls returned an error, the
\* invocation returns an error and never a success, in whatever order the
\* other two calls complete.
C2_FailureWins ==
    (ucPc = "returned" /\ \E g \in Ops : upRet[g].err # NoErr) => ReturnedErr

\* one call failed, the two other values were received first, and the call
\* returned the failure
C2_Witness ==
    /\ ReturnedErr
    /\ Cardinality(received) = 2
    /\ \E g \in Ops : upRet[g].err # NoErr /\ goPc[g] = "done"
    /\ ctxErr = NoErr

\* goroutine g is parked on the send to its unbuffered value channel and the
\* only receiver of that channel has returned: it can never take a step again
BlockedForever(g) == ucPc = "returned" /\ goPc[g] = "sendVal"

\* C3: after GetAddressInfo has returned, each spawned goroutine terminates
\* once its upstream call returns; none stays blocked forever handing over
\* its value or error.
C3_NoGoroutineLeak == \A g \in Ops : ~BlockedForever(g)

\* the returned error names call g, which failed in this invocation, and
\* wraps the error that call returned
NamesFailedCall(g) ==
    /\ upRet[g].err # NoErr
    /\ goPc[g] = "done"
    /\ ucRet.err = <<"failed to get ", g>> \o upRet[g].err

\* C11 as claimed: every error GetAddressInfo returns names one upstream
\* call of this invocation that failed and wraps that call's error, also
\* when the governing context is cancelled.
C11_AlwaysNamesCall == ReturnedErr => \E g \in Ops : NamesFailedCall(g)

\* C11: every error GetAddressInfo returns is a single error: either it names
\* one upstream call of this invocation that failed and wraps that call's
\* error, or it is "context cancelled" wrapping the error of the governing
\* context, which is then done.
C11_SingleWrappedError ==
    ReturnedErr =>
        \/ \E g \in Ops : NamesFailedCall(g)
        \/ ctxErr # NoErr /\ ucRet.err = <<"context cancelled">> \o ctxErr

\* all three calls failed and the returned error names one of them
C11_Witness ==
    /\ ReturnedErr
    /\ \A g \in Ops : upRet[g].err # NoErr
    /\ \E g \in Ops : NamesFailedCall(g)

\* the returned error is the cancellation error of the governing context
ReturnedCancellation == ucRet.err = <<"context cancelled">> \o ctxErr

\* C12: of an upstream failure reported on errCh and the cancellation of the
\* governing context, the one that happened first determines the error
\* GetAddressInfo returns: the upstream failure if a failure was reported
\* first, the cancellation error if the context was done first.
C12_FirstFaultWins ==
    ReturnedErr =>
        /\ firstFault = "failure" => \E g \in Ops : NamesFailedCall(g)
        /\ firstFault = "cancel" => ReturnedCancellation

\* the failing call g has reported its error: its goroutine sent it and ended
Reported(g) == upRet[g].err # NoErr /\ goPc[g] = "done"

\* the next step of GetAddressInfo needs no upstream call still in flight: a
\* case of the select is ready from the buffered error, or the loop is over
NeedsNoInFlightCall == (LoopCond /\ errCh # <<>>) \/ ~LoopCond

\* C13: once a failing upstream call has reported its error, no receive step
\* of GetAddressInfo blocks on an in-flight call: while the call has not
\* returned, the reported error stays ready in errCh, and the loop makes at
\* most three receive steps.
C13_NoWaitAfterFailure ==
    (ucPc = "select" /\ \E g \in Ops : Reported(g))
        => (NeedsNoInFlightCall /\ i <= 3)

\* an error was reported while another call is still in flight and the
\* caller has not returned yet
C13_Witness ==
    /\ ucPc = "select"
    /\ \E g \in Ops : Reported(g)
    /\ \E g \in Ops : goPc[g] = "call"
    /\ i = 1

\* upstream calls of operation g issued by this invocation: those that
\* returned, and the one in flight
Issued(g) == calls[g] + (IF goPc[g] = "call" THEN 1 ELSE 0)

\* C15: every invocation of GetAddressInfo starts exactly three upstream
\* calls, one per operation, and never re-issues a call after it failed,
\* whatever retry count is configured.
C15_ThreeCallsNoRetry == ucPc # "idle" => \A g \in Ops : Issued(g) = 1

\* a call failed, its error was returned, retries are configured, and still
\* every operation was called once
C15_Witness ==
    /\ ReturnedErr
    /\ retryAttempts > 0
    /\ \E g \in Ops : Reported(g) /\ calls[g] = 1
    /\ \A g \in Ops : goPc[g] # "call"

\* ------------------------------------------------------------------------
\* Properties of the rate limiter
\* ------------------------------------------------------------------------

\* number of instants of the sequence h that lie in (lo, hi]
CountIn(h, lo, hi) == Cardinality({k \in DOMAIN h : h[k] > lo /\ h[k] <= hi})

\* C6: with limit >= 1, for every identity and every interleaving of its
\* concurrent requests, the requests the limiter admitted with instants in any
\* trailing interval (t - window, t] never number more than limit.
C6_WindowBound ==
    \A ip \in IPs : \A t \in 0..MaxTime :
        CountIn(admitted[ip], t - Window, t) <= Limit

\* a request is rejected while limit admissions of its identity lie in the
\* window that ends at the instant it read
C6_Witness ==
    \E w \in Workers :
        /\ rlPc[w] = "rejected"
        /\ CountIn(admitted[rlIP[w]], rlNow[w] - Window, rlNow[w]) = Limit

\* C7: a request of a non-whitelisted identity that reads the instant now is
\* admitted if and only if fewer than limit of the identity's previously
\* admitted requests have an instant strictly after now - window.
C7_AdmitIff ==
    [][\A w \in Workers :
          (rlPc[w] = "pruned" /\ rlPc'[w] # "pruned") =>
              /\ rlPc'[w] \in {"next", "rejected"}
              /\ rlPc'[w] = "next" <=>
                     CountIn(admitted[rlIP[w]], rlNow[w] - Window, MaxTime)
                         < Limit]_vars

\* an identity that had used up its limit is admitted again once the window
\* has passed
C7_Witness ==
    \E w \in Workers :
        /\ rlPc[w] = "next"
        /\ Len(admitted[rlIP[w]]) = Limit + 1
        /\ CountIn(admitted[rlIP[w]], -1, 0) = Limit

\* C8: a request of a whitelisted identity is always passed on to the next
\* stage, and handling it leaves the timestamp map and the whitelist unchanged.
C8_WhitelistedPass ==
    [][\A w \in Workers :
          (rlPc[w] = "locked" /\ rlIP[w] \in whitelistIPs
               /\ rlPc'[w] # "locked") =>
              /\ rlPc'[w] = "nextExempt"
              /\ ips' = ips
              /\ whitelistIPs' = whitelistIPs]_vars

\* a whitelisted identity is passed on although limit of its requests are
\* stored inside the current window
C8_Witness ==
    \E w \in Workers :
        /\ rlPc[w] = "nextExempt"
        /\ rlIP[w] \in whitelistIPs
        /\ rlIP[w] \in DOMAIN ips
        /\ CountIn(ips[rlIP[w]], clock - Window, clock) = Limit

\* C9: the entry of an identity that sends no more requests is deleted no
\* later than the second sweep after its last admitted request; read under
\* the mutex, the map holds only identities admitted since the last sweep or
\* with an admission inside the window that ended at the last sweep.
C9_SweepEvicts ==
    mu = Free =>
        \A ip \in IPs :
            /\ sweepsSince[ip] >= 2 => ip \notin DOMAIN ips
            /\ (ip \in DOMAIN ips /\ sweepsSince[ip] = 1) =>
                   CountIn(admitted[ip], sleepStart - Window, sleepStart) > 0

\* an admitted identity whose entry two sweeps have removed
C9_Witness ==
    \E ip \in IPs :
        /\ admitted[ip] # <<>>
        /\ sweepsSince[ip] = 2
        /\ ip \notin DOMAIN ips
        /\ mu = Free

\* C18: a request the rate limiter rejects leaves the limiter state as it
\* was: the in-place filter that precedes a rejection rewrites the stored
\* list of the identity with the same timestamps, and the rejection itself
\* appends nothing, to the map or to the counted admissions.
C18_RejectLeavesState ==
    [][\A w \in Workers :
          /\ (rlPc[w] = "locked" /\ rlPc'[w] = "pruned"
                  /\ Len(rlValid'[w]) >= Limit) => ips' = ips
          /\ (rlPc[w] = "pruned" /\ rlPc'[w] = "rejected")
                 => (ips' = ips /\ admitted' = admitted)]_vars

\* a request is rejected at a later instant than the admissions that fill
\* the quota of its identity
C18_Witness ==
    \E w \in Workers :
        /\ rlPc[w] = "rejected"
        /\ rlNow[w] > 0
        /\ Len(ips[rlIP[w]]) = Limit
        /\ ips[rlIP[w]][1] < rlNow[w]

\* the request goroutine w is between rl.mu.Lock() and rl.mu.Unlock()
InCriticalSection(w) == rlPc[w] \in {"locked", "pruned"}

\* the goroutine that holds the mutex can take the step that leads to its
\* Unlock
HolderCanProceed ==
    /\ \A w \in Workers :
          /\ (mu = w /\ rlPc[w] = "locked")
                 => ENABLED (LimitWhitelisted(w) \/ LimitPrune(w))
          /\ (mu = w /\ rlPc[w] = "pruned")
                 => ENABLED (LimitReject(w) \/ LimitAdmit(w))
    /\ mu = Admin => ENABLED (\E ip \in IPs : AddToWhitelist(ip))
    /\ mu = Sweeper => ENABLED Cleanup

\* C23: the mutex is released on every path of an admission decision, of a
\* sweep and of a whitelist mutation: a request goroutine holds it exactly
\* between its Lock and the end of its decision, never while the downstream
\* stages run or after the rejection; whoever holds it can always proceed to
\* its release (no deadlock); the mutex passes from its holder to nobody
\* but Free, which ends the critical section; and with the mutex free an
\* idle request can lock it.
C23_MutexReleased ==
    /\ [](/\ mu \in {Free, Admin, Sweeper} \cup Workers
          /\ \A w \in Workers : mu = w <=> InCriticalSection(w)
          /\ HolderCanProceed
          /\ (mu = Free /\ requests < MaxRequests) =>
                 \A w \in Workers : rlPc[w] = "idle" =>
                     ENABLED (\E ip \in IPs : LimitLock(w, ip)))
    /\ [][\/ mu = Free
          \/ mu' = Free /\ \A w \in Workers : ~InCriticalSection(w)']_mu

\* the sweep holds the mutex while the downstream stages of an exempt and of
\* an admitted request run
C23_Witness ==
    /\ mu = Sweeper
    /\ \E w1, w2 \in Workers :
          /\ rlPc[w1] = "nextExempt"
          /\ rlPc[w2] = "next"

\* C24: AddToWhitelist and RemoveFromWhitelist run concurrently with
\* admissions and sweeps; the whitelist is written only by the caller that
\* holds the mutex and the timestamp map only by a request or the sweeper
\* that holds it; a request reads both only while it holds the mutex; and
\* between the Lock and the Unlock of an admission the whitelist does not
\* change, so the admission decides on the whitelist as it was entirely
\* before or entirely after each mutation.
C24_WhitelistAtomic ==
    [][/\ whitelistIPs' # whitelistIPs => (mu = Admin /\ mu' = Free)
       /\ ips' # ips => mu \in Workers \cup {Sweeper}
       /\ mu = Admin => ips' = ips
       /\ \A w \in Workers :
             /\ (InCriticalSection(w) /\ rlPc'[w] # rlPc[w]) => mu = w
             /\ InCriticalSection(w) => whitelistIPs' = whitelistIPs
             /\ (rlPc[w] = "locked" /\ rlPc'[w] = "nextExempt")
                    => rlIP[w] \in whitelistIPs
             /\ (rlPc[w] = "locked" /\ rlPc'[w] = "pruned")
                    => rlIP[w] \notin whitelistIPs
             /\ (rlPc[w] = "pruned" /\ rlPc'[w] # "pruned")
                    => rlIP[w] \notin whitelistIPs]_vars

\* an identity is put on the whitelist between two of its requests in
\* flight: the first was counted, the second passes exempt
C24_Witness ==
    \E w1, w2 \in Workers :
        /\ rlPc[w1] = "next"
        /\ rlPc[w2] = "nextExempt"
        /\ rlIP[w1] = rlIP[w2]
        /\ rlIP[w1] \in whitelistIPs

\* number of positions of the sequence h that hold the instant t
Occurrences(h, t) == Cardinality({k \in DOMAIN h : h[k] = t})

\* C25: whenever the mutex is free (limit >= 1), the stored list of each
\* identity is non-decreasing, holds at most limit instants, holds only
\* instants of admitted requests of that identity that lay strictly inside
\* the window at the last prune of that identity, and holds no more
\* instants than requests of the identity were admitted in that window.
C25_StoredListInvariant ==
    mu = Free =>
        \A ip \in DOMAIN ips :
            LET h == ips[ip] IN
            /\ \A j, k \in DOMAIN h : j < k => h[j] <= h[k]
            /\ Len(h) <= Limit
            /\ \A k \in DOMAIN h :
                  /\ Occurrences(h, h[k]) <= Occurrences(admitted[ip], h[k])
                  /\ h[k] > lastPrune[ip] - Window
                  /\ h[k] <= lastPrune[ip]
            /\ Len(h) <= CountIn(admitted[ip], lastPrune[ip] - Window,
                                 lastPrune[ip])

\* a full stored list of distinct instants after an older admission of
\* the identity was pruned from it
C25_Witness ==
    /\ mu = Free
    /\ \E ip \in DOMAIN ips :
          /\ Len(ips[ip]) = Limit
          /\ Len(admitted[ip]) = Limit + 1
          /\ ips[ip][1] < ips[ip][Limit]
          /\ admitted[ip][1] < ips[ip][1]

\* the map m' holds for the identity b what the map m holds
SameEntry(m1, m2, b) ==
    /\ b \in DOMAIN m1 <=> b \in DOMAIN m2
    /\ b \in DOMAIN m1 => m1[b] = m2[b]

\* C30: every step of Limit() for a request of the identity a, whether
\* the request ends admitted or rejected, leaves the stored list of every
\* other identity b and the whitelist unchanged.
C30_OtherIdentitiesUntouched ==
    [][\A w \in Workers :
          rlPc'[w] # rlPc[w] =>
              LET a == IF rlPc[w] = "idle" THEN rlIP'[w] ELSE rlIP[w]
              IN  /\ whitelistIPs' = whitelistIPs
                  /\ \A b \in IPs \ {a} : SameEntry(ips, ips', b)]_vars

\* a request is admitted and fills the list of its identity while another
\* identity has a stored list and the whitelist is not empty
C30_Witness ==
    \E w \in Workers :
        /\ rlPc[w] = "next"
        /\ rlIP[w] \in DOMAIN ips
        /\ Len(ips[rlIP[w]]) = Limit
        /\ whitelistIPs # {}
        /\ \E b \in DOMAIN ips : b # rlIP[w] /\ ips[b] # <<>>

\* C31: requests served while their identity is whitelisted are never
\* counted: the exempt pass and the whitelist mutations leave the stored
\* lists and the counted admissions as they were, a request is counted only
\* while its identity is off the whitelist, and the decision on a request
\* of an identity that is off the whitelist (again) is a rejection exactly
\* when limit counted admissions of the identity lie inside the window, so
\* a quota used up before the whitelisting still rejects after the removal.
C31_ExemptNotCounted ==
    [][/\ whitelistIPs' # whitelistIPs =>
             (ips' = ips /\ admitted' = admitted)
       /\ \A ip \in IPs :
             admitted'[ip] # admitted[ip] => ip \notin whitelistIPs
       /\ \A w \in Workers :
             /\ (rlPc[w] = "locked" /\ rlPc'[w] = "nextExempt") =>
                    (ips' = ips /\ admitted' = admitted)
             /\ (rlPc[w] = "pruned" /\ rlPc'[w] # "pruned") =>
                    /\ rlIP[w] \notin whitelistIPs
                    /\ rlPc'[w] = "rejected" <=>
                           CountIn(admitted[rlIP[w]], rlNow[w] - Window,
                                   rlNow[w]) = Limit
                    /\ rlPc'[w] = "rejected" <=>
                           Len(rlValid[w]) = Limit]_vars

\* an identity is taken off the whitelist while one of its requests, passed
\* exempt, is still served; its next request is admitted as the one that
\* fills the quota, the exempt request not counted
C31_Witness ==
    \E w1, w2 \in Workers :
        /\ rlPc[w1] = "nextExempt"
        /\ rlPc[w2] = "next"
        /\ rlIP[w1] = rlIP[w2]
        /\ rlIP[w1] \notin whitelistIPs
        /\ Len(admitted[rlIP[w1]]) = Limit
        /\ ips[rlIP[w1]] = admitted[rlIP[w1]]

\* the instants of the list h that a decision reading the instant now counts
CountedAt(h, now) == ValidTimes(h, WindowStart(now))

\* C32: the sweep is invisible to admission.  A limiter that never sweeps
\* decides on all the admissions it ever counted; with the mutex free, the
\* stored list of every identity gives every decision from now on the same
\* instants to count as that full record does, the step of the sweep
\* removes no instant a decision from now on would count, and every
\* decision is the one the full record gives.
C32_SweepInvisible ==
    /\ [](mu = Free =>
             \A ip \in IPs : \A now \in clock..MaxTime :
                 CountedAt(EntryOf(ip), now) = CountedAt(admitted[ip], now))
    /\ [][/\ (mu = Sweeper /\ mu' = Free) =>
                \A ip \in IPs : \A now \in clock..MaxTime :
                    CountedAt(IF ip \in DOMAIN ips' THEN ips'[ip] ELSE <<>>,
                              now)
                        = CountedAt(EntryOf(ip), now)
          /\ \A w \in Workers :
                (rlPc[w] = "pruned" /\ rlPc'[w] # "pruned") =>
                    (rlPc'[w] = "rejected" <=>
                        LimitReached(CountedAt(admitted[rlIP[w]], rlNow[w])))
         ]_vars

\* a request is about to be decided for an identity with counted
\* admissions whose entry a sweep has deleted
C32_Witness ==
    \E w \in Workers :
        /\ mu = w
        /\ rlPc[w] = "locked"
        /\ rlIP[w] \notin DOMAIN ips
        /\ Len(admitted[rlIP[w]]) = Limit
        /\ sweepsSince[rlIP[w]] >= 1

\* ------------------------------------------------------------------------
\* Properties of the middleware chain

\* statuses of the admission and validation failures
ShortCircuitStatuses == {400, 429, 401, 415, 204}

\* the request was answered by an admission or validation failure
ShortCircuited == \E k \in DOMAIN resp : resp[k].status \in ShortCircuitStatuses

\* no upstream call was issued: the use case was never entered and none of
\* its goroutines exists
NoUpstreamCall == ucPc = "idle" /\ \A g \in Ops : goPc[g] = "unborn"

\* C14: a request answered by an admission or validation failure (400, 429,
\* 401, 415, 204) never reaches the aggregator: no upstream call is issued
\* for it.
C14_ShortCircuitSkipsAggregator == ShortCircuited => NoUpstreamCall

\* the handler answered 400 for a malformed address after the whole chain
\* let the request through
C14_Witness ==
    /\ \E k \in DOMAIN resp :
           resp[k].status = 400 /\ resp[k].by = "GetAddressInfo"
    /\ innerPc = "exited"
    /\ NoUpstreamCall

\* the order in which the stages of the address route are to run
ExpectedOrder ==
    <<"Recovery", "RequestLogger", "SecurityHeaders", "CORS",
      "RequestSizeLimiter", "Timeout", "Limit">>
        \o (IF authEnabled THEN <<"Authenticate">> ELSE <<>>)
        \o <<"ContentTypeEnforcer", "CacheControl", "GetAddressInfo">>

\* the stages that short-circuit with a response of their own
ShortCircuitStages == {"CORS", "Limit", "Authenticate", "ContentTypeEnforcer"}

\* C16: the stages of a request to the address route are entered in the
\* order Recovery, RequestLogger, SecurityHeaders, CORS, RequestSizeLimiter,
\* Timeout, rate limiter, Auth (when enabled), ContentTypeEnforcer,
\* CacheControl, handler; and once CORS (204), the rate limiter (429), Auth
\* (401) or ContentTypeEnforcer (415) has answered, that stage is the last
\* one entered.
C16_FixedOrder ==
    reqPath = AddressRoute =>
        /\ Len(trace) <= Len(ExpectedOrder)
        /\ \A k \in DOMAIN trace : trace[k] = ExpectedOrder[k]
        /\ \A k \in DOMAIN resp :
               resp[k].by \in ShortCircuitStages
                   => trace[Len(trace)] = resp[k].by

\* with auth enabled, Authenticate answered 401 as the eighth stage and the
\* chain ended there
C16_Witness ==
    /\ reqPath = AddressRoute
    /\ authEnabled
    /\ \E k \in DOMAIN resp : resp[k].by = "Authenticate" /\ resp[k].status = 401
    /\ Len(trace) = 8
    /\ innerPc = "exited"

\* the Timeout stage has left its select and returned
TimeoutReturned == mainPc = "done" /\ Len(trace) >= 6

\* the 408 of the Timeout stage was written
Wrote408 == \E k \in DOMAIN resp : resp[k].by = "Timeout"

\* C17: the Timeout stage answers 408 if and only if the derived context was
\* done before the inner chain finished (close(done)); when the inner chain
\* finished first, Timeout writes nothing.
C17_408IffTimeoutFirst ==
    TimeoutReturned => (Wrote408 <=> finishedFirst = "timeout")

\* the credential the request presents: the X-API-Key header, or the api_key
\* query parameter when the header is empty
Presented == IF reqCred[1] # "" THEN reqCred[1] ELSE reqCred[2]

\* handler name was entered for this request
Entered(name) == \E k \in DOMAIN trace : trace[k] = name

\* C19: with authentication enabled, a request reaches the handler only if
\* the credential it presents is in the API-key registry, and then the
\* principal registered for that credential is attached as userID; a request
\* whose credential is missing or unknown is answered 401 by Authenticate.
C19_AuthGate ==
    authEnabled =>
        /\ Entered("GetAddressInfo") =>
              /\ Presented \in DOMAIN apiKeys
              /\ "userID" \in DOMAIN keys
              /\ keys["userID"] = apiKeys[Presented]
        /\ (Entered("Authenticate") /\ Presented \notin DOMAIN apiKeys) =>
              \E k \in DOMAIN resp :
                  resp[k].by = "Authenticate" /\ resp[k].status = 401

\* a request with an empty header and a registered key in the query
\* parameter reached the handler as user-1
C19_Witness ==
    /\ authEnabled
    /\ reqCred = <<"", "key-1">>
    /\ Entered("GetAddressInfo")
    /\ keys["userID"] = "user-1"

\* C20: GET /health never consults the rate limiter or Auth: neither stage
\* is entered, no 429 or 401 is written, the limiter state never changes, and
\* once the chain has run without the Timeout stage answering 408 the
\* response is 200 {"status":"ok"}; this holds for an identity whose quota is
\* exhausted and for a request without credentials when auth is enabled.
C20_HealthBypasses ==
    /\ []((reqMethod = "GET" /\ reqPath = HealthRoute) =>
            /\ ~Entered("Limit")
            /\ ~Entered("Authenticate")
            /\ \A k \in DOMAIN resp : resp[k].status \notin {429, 401}
            /\ (innerPc = "exited" /\ ~Wrote408) =>
                  (Len(resp) = 1 /\ resp[1].status = 200
                                 /\ resp[1].envelope = "ok"))
    /\ [][(reqMethod = "GET" /\ reqPath = HealthRoute) =>
             UNCHANGED <<ips, whitelistIPs, admitted, requests>>]_vars

\* a health check of a client with an exhausted quota and no credentials,
\* auth being enabled, was answered 200
C20_Witness ==
    /\ reqMethod = "GET"
    /\ reqPath = HealthRoute
    /\ authEnabled
    /\ Presented = ""
    /\ ClientIP \in DOMAIN ips
    /\ Len(ips[ClientIP]) = Limit
    /\ mainPc = "done"
    /\ Len(resp) = 1
    /\ resp[1].status = 200

\* C4: for a request that passes through Timeout, nothing is written to the
\* response after the 408 of Timeout, and the 408 is not written on top of
\* an earlier response: the 408 is the only write.
C4_SingleResponse ==
    \A k \in DOMAIN resp : resp[k].by = "Timeout" => Len(resp) = 1

\* C5: no panic raised in a stage inside Recovery escapes the chain; a panic
\* in the goroutine started by Timeout is caught as well.
C5_PanicRecovered == ~crashed

\* C10: a 500 written by the handler after GetAddressInfo failed carries the
\* generic message only: its error field holds no upstream or context
\* error text.
C10_NoErrorDetail ==
    \A k \in DOMAIN resp :
        (resp[k].by = "GetAddressInfo" /\ resp[k].status = 500)
            => (resp[k].message = "Internal server error"
                /\ resp[k].error = NoErr)

\* the responses written by the handler of the address route
HandlerResponses == {k \in 1..Len(resp) : resp[k].by = "GetAddressInfo"}

\* C22: the response of the address route carries the Cache-Control and
\* Expires headers exactly when the handler answers 200, and not when it
\* answers 400 or 500; no other route gets them.
C22_CacheHeadersOnlyOnSuccess ==
    /\ \A k \in HandlerResponses :
          {"Cache-Control", "Expires"} \subseteq headers
              <=> resp[k].status = 200
    /\ reqPath # AddressRoute => "Cache-Control" \notin headers

\* every upstream call of the request returned a value
AllUpstreamSucceeded ==
    \A g \in Ops : calls[g] = 1 /\ upRet[g].err = NoErr

\* the decimal quotient is zero
IsZeroQuotient(q) ==
    /\ \A k \in DOMAIN q.whole : q.whole[k] = 0
    /\ \A k \in DOMAIN q.frac : q.frac[k] = 0

\* C26: a GET of the address route with a valid address from an admitted
\* client whose three upstream calls all succeed and whose use case
\* returns before the deadline is answered by the handler with 200 and
\* status "success"; gasPrice.wei and balance.wei of the data are the
\* decimal strings of the upstream integers, currentBlock is the upstream
\* block number, and gwei and ether are 0 when the upstream values are 0;
\* if no timeout answer was written it is the only response.
C26_SuccessResponse ==
    (AllUpstreamSucceeded /\ ucPc = "returned" /\ ucRet.err = NoErr) =>
        /\ \A k \in HandlerResponses :
              LET r == resp[k] IN
              /\ r.status = 200
              /\ r.envelope = "success"
              /\ r.error = NoErr
              /\ r.data.Address = ucAddress
              /\ r.data.GasPrice.Wei = DecimalString(upRet["gas price"].val)
              /\ r.data.Balance.Wei = DecimalString(upRet["balance"].val)
              /\ r.data.CurrentBlock = upRet["block number"].val
              /\ upRet["gas price"].val = 0
                     => IsZeroQuotient(r.data.GasPrice.Gwei)
              /\ upRet["balance"].val = 0
                     => IsZeroQuotient(r.data.Balance.Ether)
        /\ Cardinality(HandlerResponses) <= 1
        /\ (HandlerResponses # {} /\ ~Wrote408) => Len(resp) = 1

\* the handler answered 200 with the three non-zero upstream values, and
\* nothing else was written
C26_Witness ==
    /\ AllUpstreamSucceeded
    /\ \A g \in Ops : upRet[g].val > 0
    /\ HandlerResponses = {1}
    /\ Len(resp) = 1
    /\ resp[1].status = 200
    /\ resp[1].data.GasPrice.Wei = <<"7", "0", "0", "0", "0", "0", "0", "0", "0">>

\* the answers 401, 415 and 400 of the stages behind the rate limiter
LaterRejections ==
    {k \in DOMAIN resp :
        \/ resp[k].by = "Authenticate" /\ resp[k].status = 401
        \/ resp[k].by = "ContentTypeEnforcer" /\ resp[k].status = 415
        \/ resp[k].by = "GetAddressInfo" /\ resp[k].status = 400}

\* C33: the rate limiter runs before Authenticate, ContentTypeEnforcer and
\* the address check, so a request of a non-whitelisted identity that gets
\* as far as one of them, and in particular one they answer with 401, 415
\* or 400, has been recorded: its instant is the last counted admission of
\* the identity, it is in the stored list, and a decision at this instant
\* counts it.
C33_RejectedLaterStillCounted ==
    (/\ ClientIP \notin whitelistIPs
     /\ \/ LaterRejections # {}
        \/ Entered("Authenticate")
        \/ Entered("ContentTypeEnforcer")
        \/ Entered("GetAddressInfo")) =>
        /\ Entered("Limit")
        /\ ClientIP \in DOMAIN ips
        /\ admitted[ClientIP] # <<>>
        /\ ips[ClientIP] = admitted[ClientIP]
        /\ ips[ClientIP][Len(ips[ClientIP])] = clock
        /\ Len(CountedAt(ips[ClientIP], clock)) >= 1

\* Authenticate answered 401 and the request is in the stored list
C33_Witness ==
    /\ LaterRejections # {}
    /\ resp[1].by = "Authenticate"
    /\ resp[1].status = 401
    /\ ClientIP \notin whitelistIPs
    /\ ips[ClientIP] = <<clock>>

\* ------------------------------------------------------------------------
\* Properties of the process and of the construction of the router
\* ------------------------------------------------------------------------

\* the router is built: registerRoutes has run
RouterBuilt == procPc \in {"serving", "signalled", "closed", "exited"}

\* the configured operating mode that denotes production
ProductionMode(cm) == cm = "release"

\* C21: GET /debug/ping is routable only in non-production mode: whenever
\* the configured mode denotes production, the router built by NewRouter
\* has no /debug route, and a registered /debug route means that gin runs
\* in debug mode.
C21_NoDebugRouteInProduction ==
    /\ ProductionMode(cfgMode) => DebugRoute \notin routes
    /\ DebugRoute \in routes => ginMode = "debug" /\ ~ProductionMode(cfgMode)

\* a router built for the release mode, serving /health and the address
\* route and nothing under /debug
C21_Witness ==
    /\ RouterBuilt
    /\ ProductionMode(cfgMode)
    /\ ginMode = "release"
    /\ routes = {HealthRoute, AddressRoute}

\* C34: a router built in release mode has neither loopback identity on
\* the whitelist of its rate limiter, and its API-key registry holds the
\* configured keys with their configured users and nothing else: the
\* development key is in it only if the configuration lists it, and never
\* for the development user.
C34_ReleaseModeNoDevAccess ==
    (RouterBuilt /\ ginMode = "release") =>
        /\ whitelistIPs \cap Loopback = {}
        /\ cfgAuthEnabled => registry = cfgAPIKeys
        /\ \A k \in DOMAIN registry :
              k \in DOMAIN cfgAPIKeys /\ registry[k] = cfgAPIKeys[k]
        /\ DevAPIKey \notin DOMAIN cfgAPIKeys
               => DevAPIKey \notin DOMAIN registry
        /\ \A k \in DOMAIN registry : registry[k] # DevUser

\* a router built in release mode with auth enabled and one configured key,
\* gin having started in debug mode
C34_Witness ==
    /\ RouterBuilt
    /\ ginMode = "release"
    /\ cfgAuthEnabled
    /\ DOMAIN registry = {"key-1"}
    /\ whitelistIPs = {}
    /\ DebugRoute \notin routes

\* the requests the server has accepted and not yet answered
InFlight == {r \in Reqs : reqPc[r] \in {"accepted", "calling"}}

\* C29: on SIGINT or SIGTERM the server stops taking new requests and every
\* request in flight completes before the upstream client is closed: once
\* the client is closed no request is in flight, none was cut off by the
\* exit of the process, and no request is accepted after the signal.
C29_GracefulShutdown ==
    /\ [](ethClosed => InFlight = {})
    /\ [](\A r \in Reqs : reqPc[r] # "killed")
    /\ [][procPc # "serving" =>
             \A r \in Reqs : reqPc[r] = "none" => reqPc'[r] = "none"]_vars

\* ------------------------------------------------------------------------
\* Properties of the unit conversion
\* ------------------------------------------------------------------------

\* the digits of the quotient q, whole part then fraction, are the digits
\* of the amount w: the division cut nothing off
ExactQuotient(q, w) == q.whole \o q.frac = w

WellFormed(s) ==
    /\ Len(s) >= 2
    /\ SubSeq(s, 1, 2) = <<"0", "x">>
    /\ Len(s) - 2 = 40
    /\ \A k \in 3..Len(s) :
          s[k] \in {"0", "1", "2", "3", "4", "5", "6", "7", "8", "9"}
                    \cup {"a", "b", "c", "d", "e", "f"}
                    \cup {"A", "B", "C", "D", "E", "F"}

\* C28: IsValidAddress(s) is true exactly for the strings made of "0x" and
\* exactly forty characters out of 0-9a-fA-F, and false for all others
\* (39 or 41 characters, a missing or "0X" prefix, a character that is no
\* hex digit, surrounding whitespace); the handler answers 400 for every
\* string that is not valid, also where normalising it would make it
\* valid, and passes on every valid one.
C28_ValidAddressExact ==
    /\ IsValidAddress(valAddress) <=> (valPc # "idle" /\ WellFormed(valAddress))
    /\ valPc = "rejected" => (~WellFormed(valAddress) /\ valStatus = 400)
    /\ valPc = "accepted" =>
          /\ WellFormed(valAddress)
          /\ valStatus = 0
          /\ IsValidAddress(valFormatted)
    /\ (valPc = "input" /\ ~WellFormed(valAddress)) => ENABLED CheckRejects
    /\ (valPc = "input" /\ WellFormed(valAddress)) => ENABLED CheckAccepts

\* the handler answered 400 for forty hex characters after "0X" and before
\* a blank, which FormatAddress would have turned into a valid address
C28_Witness ==
    /\ valPc = "rejected"
    /\ valStatus = 400
    /\ SubSeq(valAddress, 1, 2) = <<"0", "X">>
    /\ Len(valAddress) = AddrLen + 1
    /\ IsValidAddress(FormatAddress(valAddress))

\* ------------------------------------------------------------------------
\* Termination
\* ------------------------------------------------------------------------

\* C35: once all three upstream calls of an invocation have returned a value,
\* the invocation eventually returns success with all three values handed
\* over and every spawned goroutine finished, unless the governing context
\* is cancelled or expires; this for every order of completion.
C35_JoinTerminates ==
    (AllUpstreamSucceeded /\ ctxErr = NoErr)
        ~> (ctxErr # NoErr
              \/ (ReturnedOk /\ received = Ops
                     /\ \A g \in Ops : goPc[g] = "done"))

\* an invocation that returned success under a live context, every goroutine
\* finished, the balance handed over before the gas price was asked for
C35_Witness ==
    /\ ReturnedOk
    /\ ctxErr = NoErr
    /\ AllUpstreamSucceeded
    /\ received = Ops
    /\ \A g \in Ops : goPc[g] = "done"
    /\ ucRet.info.CurrentBlock > 0

\* the derived context of Timeout is done while the goroutine Timeout
\* started is still running the inner chain
TimeoutFired == ctxErr # NoErr /\ innerPc \notin {"none", "exited"}

\* C36: once the context derived by Timeout is done, a handler waiting in
\* GetAddressInfo gets its result, and the goroutine running the inner chain
\* reaches the end of its function: always when it is in the use case, and
\* from any other position unless a handler of the chain panics.
C36_AbandonedChainFinishes ==
    /\ (TimeoutFired /\ innerPc = "useCase") ~> (ucPc = "returned")
    /\ (TimeoutFired /\ innerPc = "useCase") ~> (innerPc = "exited")
    /\ TimeoutFired ~> (innerPc = "exited" \/ crashed)

\* Timeout answered 408 while the handler waited in the use case; the use
\* case then returned the cancellation and the inner goroutine closed done
C36_Witness ==
    /\ innerPc = "exited"
    /\ finishedFirst = "timeout"
    /\ mainPc = "done"
    /\ \E k \in DOMAIN resp : resp[k].status = 408
    /\ ucPc = "returned"
    /\ ReturnedCancellation

====
